---- MODULE Spec2Model ----
(***************************************************************************)
(* Weekly sales report: the reshaping and rollup pipeline of               *)
(* data_processor.py (DataProcessor.process_data and its steps), the       *)
(* statistics of sales_analytics.py and the send phase of main.py          *)
(* (run_sales_report).                                                     *)
(*                                                                         *)
(* Text (salesperson names, sectors, customers, cell contents, quarter     *)
(* labels, file names) is a sequence of one-character strings, so that     *)
(* strip, lower, split, the currency clean-up and Python's string order    *)
(* are computed the way the code computes them.  Amounts are integers.     *)
(* A ratio the code computes in floating point is kept as an exact         *)
(* fraction [num, den]; den = 0 stands for float("inf").                   *)
(***************************************************************************)
EXTENDS Integers, Sequences, FiniteSets, TLC

VARIABLES
    now,                    \* calendar year read by datetime.now()
    config,                 \* Config: account_executives, test_mode
    source_file,            \* the RevenueDB sheet of the latest forecast file
    quarter_columns,        \* DataProcessor.quarter_columns (set in __init__)
    pc,                     \* position of run_sales_report / process_data
    raw_df,                 \* process_data: raw_df (= df)
    direct_q1_calculation,  \* DataProcessor.direct_q1_calculation
    df_cleaned,             \* process_data: df_cleaned
    df_pivot,               \* process_data: df_pivot (long form)
    timeframe,              \* process_data: timeframe
    main_report,            \* process_data: main_report (the PivotReport)
    budget_report,          \* process_data: budget_report
    created_files,          \* process_data: created_files
    reports_created,        \* run_sales_report: reports_created (ordered dict)
    next_report,            \* run_sales_report: position of the production loop
    attempted,              \* salespeople for whom process_ae_report was called
    sales_stats,            \* SalesStats handed to send_report, per salesperson
    success_count,          \* run_sales_report: success_count
    management_stats,       \* ManagementStats handed to send_management_report
    management_success,     \* run_sales_report: management_success
    success,                \* run_sales_report: success
    status,                 \* run_sales_report: status
    run,                    \* number of the current run of the job
    first_run,              \* tables and window of the first run (for reruns)
    report_files,           \* files of this run present in the reports folder
    args,                   \* run_sales_report: args (the command line)
    environ,                \* os.environ
    paths,                  \* the paths that exist (os.path.exists)
    config_data,            \* the content of the configuration file (JSON)
    exception               \* the exception that ended load_config, if any

vars == <<now, config, source_file, quarter_columns, pc, raw_df,
          direct_q1_calculation, df_cleaned, df_pivot, timeframe, main_report,
          budget_report, created_files, reports_created, next_report,
          attempted, sales_stats, success_count, management_stats,
          management_success, success, status, run, first_run, report_files,
          args, environ, paths, config_data, exception>>

(***************************************************************************)
(* Bounds of the model.                                                    *)
(***************************************************************************)
MaxRows == 2        \* rows of the source sheet

Years == {2026}     \* calendar year of the first run

None == <<"None">>  \* Python None / a local not yet assigned

(***************************************************************************)
(* Text.                                                                   *)
(***************************************************************************)
Range(s) == {s[i] : i \in DOMAIN s}

RECURSIVE SumSeq(_)
SumSeq(s) == IF s = <<>> THEN 0 ELSE Head(s) + SumSeq(Tail(s))

\* The characters of the model in code-point order.
Chars ==
    <<" ", "$", ",", "-", ".", "/",
      "0", "1", "2", "3", "4", "5", "6", "7", "8", "9",
      "A", "B", "C", "D", "E", "F", "G", "H", "I", "J", "K", "L", "M",
      "N", "O", "P", "Q", "R", "S", "T", "U", "V", "W", "X", "Y", "Z",
      "a", "b", "c", "d", "e", "f", "g", "h", "i", "j", "k", "l", "m",
      "n", "o", "p", "q", "r", "s", "t", "u", "v", "w", "x", "y", "z">>

Code(c) == CHOOSE i \in DOMAIN Chars : Chars[i] = c

UpperCase == <<"A", "B", "C", "D", "E", "F", "G", "H", "I", "J", "K", "L", "M",
               "N", "O", "P", "Q", "R", "S", "T", "U", "V", "W", "X", "Y", "Z">>
LowerCase == <<"a", "b", "c", "d", "e", "f", "g", "h", "i", "j", "k", "l", "m",
               "n", "o", "p", "q", "r", "s", "t", "u", "v", "w", "x", "y", "z">>
Digits == <<"0", "1", "2", "3", "4", "5", "6", "7", "8", "9">>

\* str.lower()
LowerChar(c) ==
    IF c \in Range(UpperCase)
    THEN LowerCase[CHOOSE i \in DOMAIN UpperCase : UpperCase[i] = c]
    ELSE c
Lower(s) == [i \in DOMAIN s |-> LowerChar(s[i])]

\* str.strip()
RECURSIVE LStrip(_)
LStrip(s) == IF s # <<>> /\ Head(s) = " " THEN LStrip(Tail(s)) ELSE s
RECURSIVE RStrip(_)
RStrip(s) ==
    IF s # <<>> /\ s[Len(s)] = " " THEN RStrip(SubSeq(s, 1, Len(s) - 1)) ELSE s
Strip(s) == RStrip(LStrip(s))

\* Python's order on str: code points, a proper prefix first.
RECURSIVE TextLess(_, _)
TextLess(s, t) ==
    IF t = <<>> THEN FALSE
    ELSE IF s = <<>> THEN TRUE
    ELSE IF Head(s) # Head(t) THEN Code(Head(s)) < Code(Head(t))
    ELSE TextLess(Tail(s), Tail(t))

\* str(n) for an int
RECURSIVE NatStr(_)
NatStr(n) == IF n < 10 THEN <<Digits[n + 1]>>
             ELSE NatStr(n \div 10) \o <<Digits[(n % 10) + 1]>>
IntStr(n) == IF n < 0 THEN <<"-">> \o NatStr(0 - n) ELSE NatStr(n)

\* int(s) for a string of digits
DigitValue(c) == (CHOOSE i \in DOMAIN Digits : Digits[i] = c) - 1
RECURSIVE DigitsInt(_)
DigitsInt(s) ==
    IF s = <<>> THEN 0
    ELSE 10 * DigitsInt(SubSeq(s, 1, Len(s) - 1)) + DigitValue(s[Len(s)])
IsDigits(s) == s # <<>> /\ \A i \in DOMAIN s : s[i] \in Range(Digits)

(***************************************************************************)
(* Numbers: a float of a numeric column is an integer or NaN; a ratio is   *)
(* an exact fraction.                                                      *)
(***************************************************************************)
NaN == [nan |-> TRUE, v |-> 0]
Num(n) == [nan |-> FALSE, v |-> n]

Frac(n, d) == [num |-> n, den |-> d]
Inf == Frac(1, 0)                       \* float("inf")
Whole(n) == Frac(n, 1)
IsZero(x) == x.den # 0 /\ x.num = 0
IsInf(x) == x.den = 0
FracEq(x, y) == x.den # 0 /\ y.den # 0 /\ x.num * y.den = y.num * x.den

\* round(n / d) for d > 0: nearest integer, a tie to the even one.
Round(n, d) ==
    LET fl == IF n >= 0 THEN n \div d ELSE 0 - ((0 - n + d - 1) \div d)
        twice == 2 * (n - fl * d)
    IN  IF twice < d THEN fl
        ELSE IF twice > d THEN fl + 1
        ELSE IF fl % 2 = 0 THEN fl ELSE fl + 1

\* the cell text with "$" and "," removed: replace(r"[\$,]", "", regex=True)
\* a variant that removes the currency sign and keeps the thousands separator
StripDollarOnly(s) == SelectSeq(s, LAMBDA c : c # "$")

StripCurrency(s) == SelectSeq(s, LAMBDA c : c \notin {"$", ","})

IsNumeric(s) ==
    \/ IsDigits(s)
    \/ Len(s) > 1 /\ Head(s) = "-" /\ IsDigits(Tail(s))
NumericValue(s) == IF Head(s) = "-" THEN 0 - DigitsInt(Tail(s)) ELSE DigitsInt(s)

(***************************************************************************)
(* Text constants of the code and of the inputs.                           *)
(***************************************************************************)
NaNText == <<"NaN">>                \* a missing categorical value
Blank == <<>>                       \* an empty cell (NaN after read_csv)

UNASSIGNED == <<"A", "A", "A", " ", "-", " ", "U", "N", "A", "S", "S", "I", "G", "N", "E", "D">>
TRADE == <<"T", "R", "A", "D", "E">>
Unspecified == <<"U", "n", "s", "p", "e", "c", "i", "f", "i", "e", "d">>
UnspecifiedSector == Unspecified \o <<" ", "S", "e", "c", "t", "o", "r">>
UnspecifiedCustomer == Unspecified \o <<" ", "C", "u", "s", "t", "o", "m", "e", "r">>
BudgetText == <<"B", "u", "d", "g", "e", "t">>
AssignedText == <<"A", "s", "s", "i", "g", "n", "e", "d">>
NewAccounts == <<"N", "e", "w", " ", "A", "c", "c", "o", "u", "n", "t", "s">>
SalesTool == <<"S", "a", "l", "e", "s", " ", "T", "o", "o", "l">>

Alice == <<"A", "l", "i", "c", "e">>
AliceVariant == <<"a", "l", "i", "c", "e", " ">>
Bob == <<"B", "o", "b">>
Electronics == <<"E", "l", "e", "c", "t", "r", "o", "n", "i", "c", "s">>
Acme == <<"A", "c", "m", "e">>

(***************************************************************************)
(* Inputs: the configuration and the source sheet.                         *)
(***************************************************************************)
\* a monthly column "<m>/1/<y>"
Month(m, y) == [m |-> m, y |-> y]

\* the monthly columns of the source sheet, in sheet order
FileMonths == <<Month(1, 2025), Month(1, 2026), Month(2, 2026), Month(4, 2026)>>

Row(ae, sector, customer, month, text) ==
    [AE1 |-> ae, Sector |-> sector, Customer |-> customer,
     cells |-> [c \in Range(FileMonths) |-> IF c = month THEN text ELSE Blank]]

T1000 == <<"1", "0", "0", "0">>
T500 == <<"5", "0", "0">>
T250 == <<"2", "5", "0">>
TDollar1000 == <<"$", "1", ",", "0", "0", "0">>
TNegative50 == <<"$", "-", "5", "0">>
TJunk == <<"T", "B", "D">>

\* the deal rows a source sheet is made of
RowChoices ==
    << Row(Alice, Electronics, Acme, Month(1, 2026), TDollar1000),
       Row(Alice, Electronics, Acme, Month(1, 2025), T500),
       Row(Alice, Electronics, Acme, Month(2, 2026), T250),
       Row(Alice, Electronics, Acme, Month(1, 2026), TNegative50),
       Row(Alice, Electronics, Acme, Month(1, 2026), TJunk),
       Row(Alice, Electronics, Acme, Month(4, 2026), TJunk),
       Row(Alice, UNASSIGNED, Acme, Month(1, 2026), T1000),
       Row(Alice, UNASSIGNED, Acme, Month(1, 2025), T500),
       Row(Alice, TRADE, Acme, Month(1, 2026), T1000),
       Row(Alice, NaNText, NaNText, Month(4, 2026), T1000),
       Row(AliceVariant, Electronics, Acme, Month(1, 2026), T1000),
       Row(Bob, Electronics, Acme, Month(1, 2026), T500),
       Row(Bob, Electronics, Acme, Month(1, 2025), T1000),
       Row(Bob, UNASSIGNED, Acme, Month(4, 2026), T250) >>

\* sheets of up to MaxRows rows (the order of the rows of a sheet is that of
\* RowChoices: no step of the pipeline depends on the order of the rows)
Sheets ==
    UNION { { [months |-> FileMonths, absent |-> {},
               rows |-> [i \in 1..n |-> RowChoices[ix[i]]]] :
                ix \in { f \in [1..n -> DOMAIN RowChoices] :
                           \A i \in 1..n, j \in 1..n : i < j => f[i] <= f[j] } } :
            n \in 0..MaxRows }

\* the categorical columns the pipeline reads
Categorical == {"AE1", "Sector", "Customer"}

\* sheets that lack one of the categorical columns (absent: the names of the
\* columns the sheet does not have)
SchemaSheets == {[sheet EXCEPT !.absent = {c}] : sheet \in Sheets, c \in Categorical}

AccountExecutive(name, enabled, budgets) ==
    [name |-> name, enabled |-> enabled, budgets |-> budgets]

ZeroBudget == <<0, 0, 0, 0>>
AliceBudget == <<2000, 0, 3000, 4000>>
BobBudget == <<3000, 0, 1000, 1000>>

\* account_executives is a dict: a sequence in insertion order
Configs ==
    { [account_executives |->
           << AccountExecutive(Alice, TRUE, ab), AccountExecutive(Bob, be, BobBudget) >>,
       test_mode |-> tm] :
      ab \in {ZeroBudget, AliceBudget}, be \in BOOLEAN, tm \in BOOLEAN }

\* Config.account_executives.get(name): the entries of that name, none or one
GetAE(cfg, name) == SelectSeq(cfg.account_executives, LAMBDA ae : ae.name = name)

\* a variant that ignores the enabled flag
EnabledAEsIgnoringFlag(cfg) == cfg.account_executives

EnabledAEs(cfg) == SelectSeq(cfg.account_executives, LAMBDA ae : ae.enabled)

\* Config.active_aes: the names of the enabled account executives
active_aes(cfg) == [i \in DOMAIN EnabledAEs(cfg) |-> EnabledAEs(cfg)[i].name]

(***************************************************************************)
(* Year and quarter labels.                                                *)
(***************************************************************************)
\* str(datetime.now().year)[2:]
CurrentYearText(year) == SubSeq(IntStr(year), 3, Len(IntStr(year)))

\* str(int(current_year) - 1)
PreviousYearText(current_year) == IntStr(DigitsInt(current_year) - 1)

\* f"{year}Q{q}"
QuarterLabel(year_text, q) == year_text \o <<"Q">> \o IntStr(q)

\* DataProcessor.__init__ / SalesAnalytics.__init__: quarter_columns
QuarterColumns(year) == [q \in 1..4 |-> QuarterLabel(CurrentYearText(year), q)]

\* Year_Quarter of a monthly column: str(Year)[-2:] + "Q" + str(Quarter)
LastTwo(s) == IF Len(s) <= 2 THEN s ELSE SubSeq(s, Len(s) - 1, Len(s))
QuarterOf(month) == ((month.m - 1) \div 3) + 1
YearQuarter(month) == LastTwo(IntStr(month.y)) \o <<"Q">> \o IntStr(QuarterOf(month))

\* sorted(labels)
RECURSIVE SortText(_)
SortText(S) ==
    IF S = {} THEN <<>>
    ELSE LET m == CHOOSE x \in S : \A y \in S \ {x} : ~TextLess(y, x)
         IN  <<m>> \o SortText(S \ {m})

(***************************************************************************)
(* DataProcessor.calculate_direct_yoy_change                               *)
(***************************************************************************)
\* read_csv leaves a column with dtype object when a cell of it is no number
IsObjectColumn(df, col) ==
    \E i \in DOMAIN df.rows :
        df.rows[i].cells[col] # Blank /\ ~IsNumeric(df.rows[i].cells[col])

\* astype(float) raises on a string that is no number
AstypeFloatRaises(df, col) ==
    \E i \in DOMAIN df.rows :
        /\ df.rows[i].cells[col] # Blank
        /\ ~IsNumeric(StripCurrency(df.rows[i].cells[col]))

\* a variant whose pattern '[$,-]' also removes the sign
ConvertColumnUnsigned(df, col) ==
    [df EXCEPT !.rows =
        [i \in DOMAIN df.rows |->
            [df.rows[i] EXCEPT !.cells[col] =
                SelectSeq(StripCurrency(@), LAMBDA c : c # "-")]]]

\* df[col] = df[col].replace('[$,]', '', regex=True).astype(float)
ConvertColumn(df, col) ==
    [df EXCEPT !.rows =
        [i \in DOMAIN df.rows |->
            [df.rows[i] EXCEPT !.cells[col] = StripCurrency(@)]]]

\* df[col].sum() of a float column: NaN is skipped
ColumnSum(df, col) ==
    SumSeq([i \in DOMAIN df.rows |->
              IF df.rows[i].cells[col] = Blank THEN 0
              ELSE NumericValue(df.rows[i].cells[col])])

DirectColumns(year, start_month, end_month) ==
    [i \in 1..(end_month - start_month + 1) |-> Month(start_month + i - 1, year)]

\* the columns of cols that exist in df and have dtype object
ObjectColumns(df, cols) ==
    {cols[i] : i \in {j \in DOMAIN cols :
                        cols[j] \in Range(df.months) /\ IsObjectColumn(df, cols[j])}}

RECURSIVE ConvertColumns(_, _)
ConvertColumns(df, S) ==
    IF S = {} THEN df
    ELSE LET col == CHOOSE c \in S : TRUE
         IN  ConvertColumns(ConvertColumn(df, col), S \ {col})

\* the total of the columns of cols that exist in df
ColumnsTotal(df, cols) ==
    SumSeq([i \in DOMAIN cols |->
              IF cols[i] \in Range(df.months) THEN ColumnSum(df, cols[i]) ELSE 0])

\* [raised, df (converted in place), result]
calculate_direct_yoy_change(df, year1, year2, start_month, end_month) ==
    LET year1_cols == DirectColumns(year1, start_month, end_month)
        year2_cols == DirectColumns(year2, start_month, end_month)
        objects == ObjectColumns(df, year1_cols \o year2_cols)
        raised == \E col \in objects : AstypeFloatRaises(df, col)
        converted == ConvertColumns(df, objects)
        year1_total == ColumnsTotal(converted, year1_cols)
        year2_total == ColumnsTotal(converted, year2_cols)
        yoy_change == IF year1_total > 0
                      THEN Frac((year2_total - year1_total) * 100, year1_total)
                      ELSE Inf
    IN  IF raised
        THEN [raised |-> TRUE, df |-> df, result |-> None]
        ELSE [raised |-> FALSE, df |-> converted,
              result |-> [previous_year_total |-> year1_total,
                          current_year_total |-> year2_total,
                          yoy_change |-> yoy_change]]

(***************************************************************************)
(* DataProcessor._clean_dataframe, _create_pivot, _filter_timeframe        *)
(***************************************************************************)
\* pd.to_numeric(text with "$" and "," removed, errors="coerce")
ToNumericCoerce(text) ==
    LET t == StripCurrency(text)
    IN  IF IsNumeric(t) THEN Num(NumericValue(t)) ELSE NaN

\* fillna(value) of a categorical cell
FillNa(text, value) == IF text = NaNText THEN value ELSE text

_clean_dataframe(df) ==
    LET filled == [i \in DOMAIN df.rows |->
                     [df.rows[i] EXCEPT !.Sector = FillNa(@, Unspecified)]]
        numeric == [i \in DOMAIN filled |->
                      [filled[i] EXCEPT !.cells =
                          [c \in DOMAIN @ |-> ToNumericCoerce(@[c])]]]
    IN  [df EXCEPT !.rows = SelectSeq(numeric, LAMBDA r : r.Sector # TRADE)]

\* the monthly columns f"{month}/1/{year}" of the two years that exist in df
DateColumns(df, current_year) ==
    LET wanted == [i \in 1..24 |->
                     Month(((i - 1) % 12) + 1,
                           IF i <= 12 THEN current_year - 1 ELSE current_year)]
    IN  SelectSeq(wanted, LAMBDA c : c \in Range(df.months))

\* one record of the melted table
LongRecord(row, col) ==
    [AE1 |-> row.AE1, Sector |-> row.Sector, Customer |-> row.Customer,
     Date |-> col, Amt |-> row.cells[col],
     Quarter |-> QuarterOf(col), Year |-> col.y, Year_Quarter |-> YearQuarter(col)]

\* pd.melt: column by column, the rows of each column in table order
_create_pivot(df, current_year) ==
    LET date_columns == DateColumns(df, current_year)
        n == Len(df.rows)
    IN  [k \in 1..(Len(date_columns) * n) |->
           LongRecord(df.rows[((k - 1) % n) + 1], date_columns[((k - 1) \div n) + 1])]

IsPositive(amt) == ~amt.nan /\ amt.v > 0

_filter_timeframe(df, current_year) ==
    LET year_filtered ==
            SelectSeq(df, LAMBDA r : r.Date.y \in {current_year, current_year - 1})
    IN  SelectSeq(year_filtered, LAMBDA r : IsPositive(r.Amt))

(***************************************************************************)
(* DataProcessor._create_main_report                                       *)
(* A report table is [quarters: its year-quarter columns in order,         *)
(* rows: its rows in order]; a row is [AE1, Sector, Customer, q], q the    *)
(* value of each year-quarter column.                                      *)
(***************************************************************************)
KeyOf(r) == <<r.AE1, r.Sector, r.Customer>>

KeyLess(a, b) ==
    \/ TextLess(a[1], b[1])
    \/ a[1] = b[1] /\ TextLess(a[2], b[2])
    \/ a[1] = b[1] /\ a[2] = b[2] /\ TextLess(a[3], b[3])

\* the keys of S in the order of sort_values(["AE1", "Sector", "Customer"])
RECURSIVE SortKeys(_)
SortKeys(S) ==
    IF S = {} THEN <<>>
    ELSE LET m == CHOOSE x \in S : \A y \in S \ {x} : ~KeyLess(y, x)
         IN  <<m>> \o SortKeys(S \ {m})

\* a variant without the fillna step: groupby drops a record with a missing key
PrepareTimeframeDropNa(tf) ==
    SelectSeq(tf, LAMBDA r : /\ IsPositive(r.Amt)
                             /\ NaNText \notin {r.AE1, r.Sector, r.Customer})

\* the fillna and to_numeric steps and the amount filter
PrepareTimeframe(tf) ==
    LET filled == [i \in DOMAIN tf |->
                     [tf[i] EXCEPT !.Customer = FillNa(@, UnspecifiedCustomer),
                                   !.Sector = FillNa(@, UnspecifiedSector),
                                   !.AE1 = FillNa(@, <<>>)]]
    IN  SelectSeq(filled, LAMBDA r : IsPositive(r.Amt))

\* a variant that compares the names as they are written
IsActiveAEExact(name, active) == name \in Range(active)

\* AE1.str.strip().str.lower().isin([ae.lower() for ae in active_aes])
IsActiveAE(name, active) ==
    Lower(Strip(name)) \in {Lower(active[i]) : i \in DOMAIN active}

FilterActiveAEs(tf, active) == SelectSeq(tf, LAMBDA r : IsActiveAE(r.AE1, active))

\* a variant that keeps the last amount of a group, not the sum
GroupLast(tf, key, label) ==
    LET hits == SelectSeq(tf, LAMBDA r : KeyOf(r) = key /\ r.Year_Quarter = label)
    IN  IF hits = <<>> THEN 0 ELSE hits[Len(hits)].Amt.v

\* groupby(["AE1", "Sector", "Customer", "Year_Quarter"])["Amt"].sum()
GroupSum(tf, key, label) ==
    SumSeq([i \in DOMAIN tf |->
              IF KeyOf(tf[i]) = key /\ tf[i].Year_Quarter = label
              THEN tf[i].Amt.v ELSE 0])

\* pd.pivot_table(summary, index=key, columns=Year_Quarter, fill_value=0)
PivotTable(tf) ==
    LET keys == SortKeys({KeyOf(tf[i]) : i \in DOMAIN tf})
        labels == SortText({tf[i].Year_Quarter : i \in DOMAIN tf})
    IN  [quarters |-> labels,
         rows |-> [i \in DOMAIN keys |->
                     [AE1 |-> keys[i][1], Sector |-> keys[i][2], Customer |-> keys[i][3],
                      q |-> [l \in Range(labels) |-> GroupSum(tf, keys[i], l)]]]]

\* a variant that requires the quarters of the current year only
AllQuartersCurrentOnly(year) ==
    [i \in 1..4 |-> QuarterLabel(CurrentYearText(year), i)]

\* the 8 required quarters: previous year then current year
AllQuarters(year) ==
    LET current_year == CurrentYearText(year)
        previous_year == PreviousYearText(current_year)
    IN  [i \in 1..8 |->
           QuarterLabel(IF i <= 4 THEN previous_year ELSE current_year, ((i - 1) % 4) + 1)]

\* table[quarter] = 0 for every quarter of quarters that is no column yet
AddMissingQuarters(table, quarters) ==
    LET missing == SelectSeq(quarters, LAMBDA l : l \notin Range(table.quarters))
        columns == table.quarters \o missing
    IN  [quarters |-> columns,
         rows |-> [i \in DOMAIN table.rows |->
                     [table.rows[i] EXCEPT !.q =
                         [l \in Range(columns) |-> IF l \in DOMAIN @ THEN @[l] ELSE 0]]]]

\* table.reindex(columns=key columns + columns, fill_value=0)
Reindex(table, columns) ==
    [quarters |-> columns,
     rows |-> [i \in DOMAIN table.rows |->
                 [table.rows[i] EXCEPT !.q =
                     [l \in Range(columns) |-> IF l \in DOMAIN @ THEN @[l] ELSE 0]]]]

\* report.sort_values(["AE1", "Sector", "Customer"]); the keys are unique
SortRows(table) ==
    LET keys == SortKeys({KeyOf(table.rows[i]) : i \in DOMAIN table.rows})
    IN  [table EXCEPT !.rows =
            [i \in DOMAIN keys |->
                table.rows[CHOOSE j \in DOMAIN table.rows : KeyOf(table.rows[j]) = keys[i]]]]

_create_main_report(tf, cfg, year) ==
    LET kept == FilterActiveAEs(PrepareTimeframe(tf), active_aes(cfg))
        pivot_table == PivotTable(kept)
        all_quarters == AllQuarters(year)
        final_columns == SortText(Range(all_quarters))
    IN  SortRows(Reindex(AddMissingQuarters(pivot_table, all_quarters), final_columns))

(***************************************************************************)
(* DataProcessor._create_budget_report                                     *)
(***************************************************************************)
RowsOf(table, name) == SelectSeq(table.rows, LAMBDA r : r.AE1 = name)

\* rows[qtr].sum()
QuarterSum(rows, qtr) == SumSeq([i \in DOMAIN rows |-> rows[i].q[qtr]])

BudgetRow(ae, qcols) ==
    [AE1 |-> ae.name, Sector |-> BudgetText, Customer |-> BudgetText,
     q |-> [l \in Range(qcols) |->
              ae.budgets[CHOOSE i \in DOMAIN qcols : qcols[i] = l]]]

UnassignedData(ae_data) == SelectSeq(ae_data, LAMBDA r : r.Sector = UNASSIGNED)

\* the "AAA - UNASSIGNED" / "New Accounts" rows of one salesperson: 0 or 1
UnassignedRows(ae, ae_data, qcols) ==
    LET unassigned_data == UnassignedData(ae_data)
    IN  IF unassigned_data # <<>>
        THEN << [AE1 |-> ae.name, Sector |-> UNASSIGNED, Customer |-> NewAccounts,
                 q |-> [l \in Range(qcols) |-> QuarterSum(unassigned_data, l)]] >>
        ELSE <<>>

\* a variant that reports the whole total as assigned
AssignedRowWholeTotal(ae, ae_data, qcols) ==
    [AE1 |-> ae.name, Sector |-> AssignedText, Customer |-> <<>>,
     q |-> [l \in Range(qcols) |-> QuarterSum(ae_data, l)]]

\* total minus unassigned
AssignedRow(ae, ae_data, qcols) ==
    LET unassigned_data == UnassignedData(ae_data)
    IN  [AE1 |-> ae.name, Sector |-> AssignedText, Customer |-> <<>>,
         q |-> [l \in Range(qcols) |->
                  QuarterSum(ae_data, l)
                    - (IF unassigned_data # <<>> THEN QuarterSum(unassigned_data, l) ELSE 0)]]

RECURSIVE Concat(_)
Concat(ss) == IF ss = <<>> THEN <<>> ELSE Head(ss) \o Concat(Tail(ss))

\* report["Total"] = report[quarter_columns].sum(axis=1)
WithTotal(row, qcols) ==
    [AE1 |-> row.AE1, Sector |-> row.Sector, Customer |-> row.Customer, q |-> row.q,
     Total |-> SumSeq([i \in DOMAIN qcols |-> row.q[qcols[i]]])]

\* report.sort_values(["AE1", "Sector"]); (AE1, Sector) is unique
RECURSIVE SortBudgetRows(_)
SortBudgetRows(S) ==
    IF S = {} THEN <<>>
    ELSE LET m == CHOOSE x \in S : \A y \in S \ {x} :
                     ~KeyLess(<<y.AE1, y.Sector, <<>> >>, <<x.AE1, x.Sector, <<>> >>)
         IN  <<m>> \o SortBudgetRows(S \ {m})

_create_budget_report(report, cfg, qcols) ==
    LET table == AddMissingQuarters(report, qcols)
        enabled == EnabledAEs(cfg)
        budget_rows == [i \in DOMAIN enabled |-> BudgetRow(enabled[i], qcols)]
        assigned_rows ==
            [i \in DOMAIN enabled |->
                AssignedRow(enabled[i], RowsOf(table, enabled[i].name), qcols)]
        unassigned_rows ==
            Concat([i \in DOMAIN enabled |->
                      UnassignedRows(enabled[i], RowsOf(table, enabled[i].name), qcols)])
        all_rows == budget_rows \o assigned_rows \o unassigned_rows
    IN  [quarters |-> qcols,
         rows |-> SortBudgetRows({WithTotal(all_rows[i], qcols) : i \in DOMAIN all_rows})]

(***************************************************************************)
(* SalesAnalytics.calculate_sales_stats                                    *)
(***************************************************************************)
\* a variant that does not look at the Sector
PositiveSumAnySector(rows, col, unassigned) ==
    SumSeq([i \in DOMAIN rows |-> IF rows[i].q[col] > 0 THEN rows[i].q[col] ELSE 0])

\* rows[(Sector ==/!= UNASSIGNED) & (rows[col] > 0)][col].sum()
PositiveSum(rows, col, unassigned) ==
    SumSeq([i \in DOMAIN rows |->
              IF (rows[i].Sector = UNASSIGNED) = unassigned /\ rows[i].q[col] > 0
              THEN rows[i].q[col] ELSE 0])

\* a variant that gives the ratio, not the percentage
CompletionPercentageRatio(assigned, budget) ==
    IF budget > 0 THEN Frac(assigned, budget) ELSE Whole(0)

\* (assigned / budget * 100) if budget > 0 else 0
CompletionPercentage(assigned, budget) ==
    IF budget > 0 THEN Frac(assigned * 100, budget) ELSE Whole(0)

\* ((current - previous) / previous * 100) if previous > 0 else 0
YoyChangeOrZero(current, previous) ==
    IF previous > 0 THEN Frac((current - previous) * 100, previous) ELSE Whole(0)

\* ((current - previous) / previous * 100) if previous > 0 else float("inf")
YoyChangeOrInf(current, previous) ==
    IF previous > 0 THEN Frac((current - previous) * 100, previous) ELSE Inf

\* one QuarterData of calculate_sales_stats
SalesQuarter(ae_data, ae_config, current_year, previous_year, q) ==
    LET current_quarter == QuarterLabel(current_year, q)
        previous_quarter == QuarterLabel(previous_year, q)
        budget_value == ae_config.budgets[q]
        assigned_revenue == PositiveSum(ae_data, current_quarter, FALSE)
        unassigned_revenue == PositiveSum(ae_data, current_quarter, TRUE)
        previous_assigned_revenue == PositiveSum(ae_data, previous_quarter, FALSE)
        previous_unassigned_revenue == PositiveSum(ae_data, previous_quarter, TRUE)
    IN  [name |-> <<"Q">> \o IntStr(q) \o <<" ">> \o current_year,
         assigned |-> assigned_revenue,
         unassigned |-> unassigned_revenue,
         budget |-> budget_value,
         completion_percentage |-> CompletionPercentage(assigned_revenue, budget_value),
         previous_year_assigned |-> previous_assigned_revenue,
         previous_year_unassigned |-> previous_unassigned_revenue,
         year_over_year_change |->
             YoyChangeOrZero(assigned_revenue, previous_assigned_revenue)]

\* len(rows[(Sector != UNASSIGNED) & (rows[quarters].sum(axis=1) > 0)]["Customer"].unique())
CustomerCount(rows, quarters) ==
    Cardinality({rows[i].Customer :
                   i \in {j \in DOMAIN rows :
                            /\ rows[j].Sector # UNASSIGNED
                            /\ SumSeq([k \in DOMAIN quarters |-> rows[j].q[quarters[k]]]) > 0}})

\* [raised, stats]
calculate_sales_stats(sales_data_df, ae_name, cfg, year) ==
    LET found == GetAE(cfg, ae_name)
        ae_config == found[1]
        ae_data == RowsOf(sales_data_df, ae_name)
        current_year == CurrentYearText(year)
        previous_year == PreviousYearText(current_year)
        current_quarters == [q \in 1..4 |-> QuarterLabel(current_year, q)]
        previous_quarters == [q \in 1..4 |-> QuarterLabel(previous_year, q)]
        quarterly_data ==
            [q \in 1..4 |-> SalesQuarter(ae_data, ae_config, current_year, previous_year, q)]
        total_assigned == SumSeq([q \in 1..4 |-> quarterly_data[q].assigned])
        total_unassigned == SumSeq([q \in 1..4 |-> quarterly_data[q].unassigned])
        total_previous_year ==
            SumSeq([q \in 1..4 |-> quarterly_data[q].previous_year_assigned])
        current_customers == CustomerCount(ae_data, current_quarters)
    IN  IF found = <<>> \/ ~ae_config.enabled
        THEN [raised |-> TRUE, stats |-> None]       \* ValueError
        ELSE IF ~(Range(current_quarters) \cup Range(previous_quarters)
                    \subseteq Range(sales_data_df.quarters))
        THEN [raised |-> TRUE, stats |-> None]       \* KeyError
        ELSE [raised |-> FALSE,
              stats |->
                [total_customers |-> current_customers,
                 total_assigned_revenue |-> total_assigned,
                 total_unassigned_revenue |-> total_unassigned,
                 avg_per_customer |->
                     IF current_customers > 0
                     THEN Frac(total_assigned, current_customers) ELSE Whole(0),
                 quarterly_data |-> quarterly_data,
                 previous_year_customers |-> CustomerCount(ae_data, previous_quarters),
                 total_previous_year_revenue |-> total_previous_year,
                 total_year_over_year_change |->
                     YoyChangeOrZero(total_assigned, total_previous_year)]]

(***************************************************************************)
(* SalesAnalytics.calculate_company_quarterly_data and                     *)
(* calculate_management_stats                                              *)
(***************************************************************************)
\* rows[Sector ==/!= UNASSIGNED][col].sum()
SectorSum(rows, col, unassigned) ==
    SumSeq([i \in DOMAIN rows |->
              IF (rows[i].Sector = UNASSIGNED) = unassigned THEN rows[i].q[col] ELSE 0])

\* sum of the budgets of quarter q over the enabled account executives
CompanyBudget(cfg, q) ==
    SumSeq([i \in DOMAIN EnabledAEs(cfg) |-> EnabledAEs(cfg)[i].budgets[q]])

\* round(x) of a completion percentage
Rounded(x) == Whole(Round(x.num, x.den))

\* one quarter of calculate_company_quarterly_data (the division of the Q1
\* debug message is a numpy division: inf or nan, no exception)
CompanyQuarter(df, cfg, current_year, previous_year, q) ==
    LET current_q == QuarterLabel(current_year, q)
        previous_q == QuarterLabel(previous_year, q)
        assigned == SectorSum(df.rows, current_q, FALSE)
        unassigned == SectorSum(df.rows, current_q, TRUE)
        previous_assigned == SectorSum(df.rows, previous_q, FALSE)
        budget == CompanyBudget(cfg, q)
    IN  [name |-> <<"Q">> \o IntStr(q) \o <<" ">> \o current_year,
         assigned |-> assigned,
         unassigned |-> unassigned,
         budget |-> budget,
         completion_percentage |-> Rounded(CompletionPercentage(assigned, budget)),
         previous_year_assigned |-> previous_assigned,
         year_over_year_change |-> YoyChangeOrInf(assigned, previous_assigned)]

calculate_company_quarterly_data(df, cfg, year) ==
    LET current_year == CurrentYearText(year)
        previous_year == PreviousYearText(current_year)
    IN  [q \in 1..4 |-> CompanyQuarter(df, cfg, current_year, previous_year, q)]

\* the ae_data entry of one enabled account executive
AEEntry(ae_config, ae_stats) ==
    LET total_budget == SumSeq(ae_config.budgets)
        quarter(q) ==
            LET current_data == ae_stats.quarterly_data[q]
            IN  [name |-> <<"Q">> \o IntStr(q),
                 assigned |-> current_data.assigned,
                 unassigned |-> current_data.unassigned,
                 budget |-> ae_config.budgets[q],
                 completion_percentage |->
                     Rounded(CompletionPercentage(current_data.assigned,
                                                  ae_config.budgets[q])),
                 previous_year_assigned |-> current_data.previous_year_assigned,
                 previous_year_unassigned |-> current_data.previous_year_unassigned,
                 year_over_year_change |-> current_data.year_over_year_change]
    IN  [name |-> ae_config.name,
         total_assigned_revenue |-> ae_stats.total_assigned_revenue,
         total_customers |-> ae_stats.total_customers,
         quarters |-> [q \in 1..4 |-> quarter(q)],
         previous_year_revenue |-> ae_stats.total_previous_year_revenue,
         previous_year_customers |-> ae_stats.previous_year_customers,
         year_over_year_change |-> ae_stats.total_year_over_year_change,
         total_budget |-> total_budget,
         annual_totals |->
             [assigned |-> ae_stats.total_assigned_revenue,
              unassigned |-> ae_stats.total_unassigned_revenue,
              budget |-> total_budget,
              completion_percentage |->
                  Rounded(CompletionPercentage(ae_stats.total_assigned_revenue,
                                               total_budget)),
              year_over_year_change |-> ae_stats.total_year_over_year_change]]

\* ae_data.sort(key=total_assigned_revenue, reverse=True): a stable sort
RECURSIVE SortByRevenue(_)
SortByRevenue(s) ==
    IF s = <<>> THEN <<>>
    ELSE LET i == CHOOSE j \in DOMAIN s :
                    /\ \A k \in DOMAIN s :
                          s[k].total_assigned_revenue <= s[j].total_assigned_revenue
                    /\ \A k \in 1..(j - 1) :
                          s[k].total_assigned_revenue < s[j].total_assigned_revenue
         IN  <<s[i]>> \o SortByRevenue(SubSeq(s, 1, i - 1) \o SubSeq(s, i + 1, Len(s)))

\* the total over the four quarters of quarters
QuartersTotal(rows, quarters, unassigned) ==
    SumSeq([k \in DOMAIN quarters |-> SectorSum(rows, quarters[k], unassigned)])

\* [raised, stats]; year is the calendar year read at the start of the
\* function, stats_year the one that calculate_sales_stats reads in the loop
\* over the account executives
calculate_management_stats(sales_data, cfg, year, stats_year) ==
    LET current_year == CurrentYearText(year)
        previous_year == PreviousYearText(current_year)
        current_quarters == [q \in 1..4 |-> QuarterLabel(current_year, q)]
        previous_quarters == [q \in 1..4 |-> QuarterLabel(previous_year, q)]
        assigned_data == SelectSeq(sales_data.rows, LAMBDA r : r.Sector # UNASSIGNED)
        total_revenue == QuartersTotal(sales_data.rows, current_quarters, FALSE)
        total_previous_year_revenue ==
            QuartersTotal(sales_data.rows, previous_quarters, FALSE)
        company_total_budget ==
            SumSeq([i \in DOMAIN EnabledAEs(cfg) |-> SumSeq(EnabledAEs(cfg)[i].budgets)])
        enabled == EnabledAEs(cfg)
        \* an account executive whose statistics raise is skipped
        computed == SelectSeq(enabled,
            LAMBDA ae : ~calculate_sales_stats(sales_data, ae.name, cfg,
                                               stats_year).raised)
        ae_data == [i \in DOMAIN computed |->
                      AEEntry(computed[i],
                              calculate_sales_stats(sales_data, computed[i].name,
                                                    cfg, stats_year).stats)]
    IN  IF ~(Range(current_quarters) \cup Range(previous_quarters)
               \subseteq Range(sales_data.quarters))
        THEN [raised |-> TRUE, stats |-> None]       \* KeyError
        ELSE [raised |-> FALSE,
              stats |->
                [total_revenue |-> total_revenue,
                 total_unassigned_revenue |->
                     QuartersTotal(sales_data.rows, current_quarters, TRUE),
                 total_customers |-> CustomerCount(assigned_data, current_quarters),
                 ae_data |-> SortByRevenue(ae_data),
                 total_previous_year_revenue |-> total_previous_year_revenue,
                 total_previous_year_unassigned |->
                     QuartersTotal(sales_data.rows, previous_quarters, TRUE),
                 total_year_over_year_change |->
                     YoyChangeOrInf(total_revenue, total_previous_year_revenue),
                 previous_year_customers |->
                     CustomerCount(assigned_data, previous_quarters),
                 company_quarters |-> calculate_company_quarterly_data(sales_data, cfg, year),
                 company_total_budget |-> company_total_budget,
                 company_completion_percentage |->
                     Rounded(CompletionPercentage(total_revenue, company_total_budget))]]

(***************************************************************************)
(* SalesAnalytics.override_with_direct_calculation                         *)
(***************************************************************************)
\* DataProcessor(self.config): the attributes __init__ gives a new object
DataProcessor(cfg, year) ==
    [config |-> cfg,
     current_year |-> CurrentYearText(year),
     quarter_columns |-> QuarterColumns(year)]

\* hasattr(obj, name)
HasAttr(obj, name) == name \in DOMAIN obj

\* s.startswith(prefix)
StartsWith(s, prefix) ==
    Len(s) >= Len(prefix) /\ SubSeq(s, 1, Len(prefix)) = prefix

\* the loop over company_quarters: the first quarter whose name starts with
\* "Q1" gets the direct value, then break
OverrideFirstQ1(quarters, direct_yoy) ==
    LET hits == {i \in DOMAIN quarters : StartsWith(quarters[i].name, <<"Q", "1">>)}
    IN  IF hits = {} THEN quarters
        ELSE LET first == CHOOSE i \in hits : \A j \in hits : i <= j
             IN  [quarters EXCEPT ![first].year_over_year_change = direct_yoy]

\* the function builds a DataProcessor of its own and asks it for the
\* direct calculation
override_with_direct_calculation(stats, cfg, year) ==
    LET data_processor == DataProcessor(cfg, year)
    IN  IF HasAttr(data_processor, "direct_q1_calculation")
        THEN [stats EXCEPT !.company_quarters =
                 OverrideFirstQ1(@, data_processor.direct_q1_calculation.yoy_change)]
        ELSE stats

(***************************************************************************)
(* DataProcessor.save_report and the report files                          *)
(***************************************************************************)
ReportsFolder == <<"r", "e", "p", "o", "r", "t", "s">>
Xlsx == <<".", "x", "l", "s", "x">>

\* datetime.now().strftime('%y%m%d-%H%M%S'); the day and the time of day are
\* not part of the model
Timestamp(year) ==
    LastTwo(IntStr(year)) \o <<"0", "1", "0", "1", "-", "0", "0", "0", "0", "0", "0">>

\* f"{sales_person}-Sales Tool-{timestamp}.xlsx"
FileName(sales_person, year) ==
    sales_person \o <<"-">> \o SalesTool \o <<"-">> \o Timestamp(year) \o Xlsx

\* os.path.join(report_folder, filename)
PathJoin(folder, filename) == folder \o <<"/">> \o filename

\* os.path.basename(path)
RECURSIVE Basename(_)
Basename(path) ==
    IF \E i \in DOMAIN path : path[i] = "/"
    THEN Basename(SubSeq(path, (CHOOSE i \in DOMAIN path : path[i] = "/") + 1, Len(path)))
    ELSE path

\* s.split(sep)[0]
SplitFirst(s, sep) ==
    IF \E i \in DOMAIN s : s[i] = sep
    THEN SubSeq(s, 1, (CHOOSE i \in DOMAIN s :
                          s[i] = sep /\ \A j \in 1..(i - 1) : s[j] # sep) - 1)
    ELSE s

\* report["AE1"].unique(): in order of first appearance
RECURSIVE Unique(_)
Unique(s) ==
    IF s = <<>> THEN <<>>
    ELSE LET front == Unique(SubSeq(s, 1, Len(s) - 1))
         IN  IF s[Len(s)] \in Range(front) THEN front ELSE Append(front, s[Len(s)])

SalesPeople(report) == Unique([i \in DOMAIN report.rows |-> report.rows[i].AE1])

\* the files save_report creates, one per salesperson of the report
save_report(report, report_folder, year) ==
    [i \in DOMAIN SalesPeople(report) |->
        PathJoin(report_folder, FileName(SalesPeople(report)[i], year))]

\* {os.path.basename(f).split("-")[0]: f for f in created_files}: a dict keeps
\* the place of a key's first insertion and the value of its last one
RECURSIVE MapReports(_)
MapReports(files) ==
    IF files = <<>> THEN <<>>
    ELSE LET front == MapReports(SubSeq(files, 1, Len(files) - 1))
             f == files[Len(files)]
             key == SplitFirst(Basename(f), "-")
         IN  IF \E i \in DOMAIN front : front[i].key = key
             THEN [i \in DOMAIN front |->
                     IF front[i].key = key THEN [key |-> key, path |-> f] ELSE front[i]]
             ELSE Append(front, [key |-> key, path |-> f])

\* reports_created.get(ae_name)
GetReport(reports, ae_name) ==
    LET hits == SelectSeq(reports, LAMBDA r : r.key = ae_name)
    IN  IF hits = <<>> THEN None ELSE hits[1].path

(***************************************************************************)
(* The run: run_sales_report calling DataProcessor.process_data, then the  *)
(* send phase.                                                             *)
(***************************************************************************)
Fresh ==
    /\ raw_df = None
    /\ direct_q1_calculation = None
    /\ df_cleaned = None
    /\ df_pivot = None
    /\ timeframe = None
    /\ main_report = None
    /\ budget_report = None
    /\ created_files = None
    /\ report_files = <<>>
    /\ reports_created = None
    /\ next_report = 1
    /\ attempted = {}
    /\ sales_stats = <<>>
    /\ success_count = 0
    /\ management_stats = None
    /\ management_success = None
    /\ success = None
    /\ status = None

\* no exception
NoException == [type |-> "", message |-> ""]

\* load_config has returned config: its inputs play no further part
Configured ==
    /\ args = [test |-> config.test_mode]
    /\ environ = <<>>
    /\ paths = {}
    /\ config_data = None
    /\ exception = NoException

Init ==
    /\ now \in Years
    /\ config \in Configs
    /\ source_file \in Sheets
    /\ quarter_columns = QuarterColumns(now)
    /\ pc = "start"
    /\ run = 1
    /\ first_run = None
    /\ Fresh
    /\ Configured

\* process_data: raw_df = self.get_unfiltered_data(infile, "RevenueDB")
GetUnfilteredData ==
    /\ pc = "start"
    /\ raw_df' = source_file
    /\ pc' = "read"
    /\ UNCHANGED <<now, config, source_file, quarter_columns, direct_q1_calculation,
                   df_cleaned, df_pivot, timeframe, main_report, budget_report,
                   created_files, reports_created, next_report, attempted, sales_stats,
                   success_count, management_stats, management_success, success,
                   status, run, first_run,
                   report_files, args, environ, paths, config_data, exception>>

\* process_data: q1_direct = self.calculate_direct_yoy_change(raw_df, ...);
\* an exception leaves process_data as a RuntimeError
CalculateDirectYoy ==
    /\ pc = "read"
    /\ LET r == calculate_direct_yoy_change(raw_df, now - 1, now, 1, 3)
       IN  /\ raw_df' = r.df
           /\ direct_q1_calculation' = r.result
           /\ pc' = IF r.raised THEN "failed" ELSE "direct"
    /\ UNCHANGED <<now, config, source_file, quarter_columns,
                   df_cleaned, df_pivot, timeframe, main_report, budget_report,
                   created_files, reports_created, next_report, attempted, sales_stats,
                   success_count, management_stats, management_success, success,
                   status, run, first_run,
                   report_files, args, environ, paths, config_data, exception>>

\* df["Sector"] raises KeyError when the table has no such column
CleanRaises(df) == "Sector" \in df.absent

\* df[id_vars + date_columns] raises KeyError when an id column is absent
PivotRaises(df) == df.absent \cap {"AE1", "Customer"} # {}

CleanDataframe ==
    /\ pc = "direct"
    /\ IF CleanRaises(raw_df)
       THEN df_cleaned' = None /\ pc' = "failed"
       ELSE df_cleaned' = _clean_dataframe(raw_df) /\ pc' = "cleaned"
    /\ UNCHANGED <<now, config, source_file, quarter_columns, raw_df,
                   direct_q1_calculation, df_pivot, timeframe, main_report,
                   budget_report, created_files, reports_created, next_report,
                   attempted, sales_stats, success_count, management_stats,
                   management_success, success, status, run, first_run,
                   report_files, args, environ, paths, config_data, exception>>

CreatePivot ==
    /\ pc = "cleaned"
    /\ IF PivotRaises(df_cleaned)
       THEN df_pivot' = None /\ pc' = "failed"
       ELSE df_pivot' = _create_pivot(df_cleaned, now) /\ pc' = "melted"
    /\ UNCHANGED <<now, config, source_file, quarter_columns, raw_df,
                   direct_q1_calculation, df_cleaned, timeframe, main_report,
                   budget_report, created_files, reports_created, next_report,
                   attempted, sales_stats, success_count, management_stats,
                   management_success, success, status, run, first_run,
                   report_files, args, environ, paths, config_data, exception>>

FilterTimeframe ==
    /\ pc = "melted"
    /\ timeframe' = _filter_timeframe(df_pivot, now)
    /\ pc' = "filtered"
    /\ UNCHANGED <<now, config, source_file, quarter_columns, raw_df,
                   direct_q1_calculation, df_cleaned, df_pivot, main_report,
                   budget_report, created_files, reports_created, next_report,
                   attempted, sales_stats, success_count, management_stats,
                   management_success, success, status, run, first_run,
                   report_files, args, environ, paths, config_data, exception>>

CreateMainReport ==
    /\ pc = "filtered"
    /\ main_report' = _create_main_report(timeframe, config, now)
    /\ pc' = "main"
    /\ UNCHANGED <<now, config, source_file, quarter_columns, raw_df,
                   direct_q1_calculation, df_cleaned, df_pivot, timeframe,
                   budget_report, created_files, reports_created, next_report,
                   attempted, sales_stats, success_count, management_stats,
                   management_success, success, status, run, first_run,
                   report_files, args, environ, paths, config_data, exception>>

CreateBudgetReport ==
    /\ pc = "main"
    /\ budget_report' = _create_budget_report(main_report, config, quarter_columns)
    /\ pc' = "budget"
    /\ UNCHANGED <<now, config, source_file, quarter_columns, raw_df,
                   direct_q1_calculation, df_cleaned, df_pivot, timeframe,
                   main_report, created_files, reports_created, next_report,
                   attempted, sales_stats, success_count, management_stats,
                   management_success, success, status, run, first_run,
                   report_files, args, environ, paths, config_data, exception>>

\* process_data: created_files = self.save_report(...); return
SaveReport ==
    /\ pc = "budget"
    /\ created_files' = save_report(main_report, ReportsFolder, now)
    /\ report_files' = created_files'
    /\ pc' = "returned"
    /\ UNCHANGED <<now, config, source_file, quarter_columns, raw_df,
                   direct_q1_calculation, df_cleaned, df_pivot, timeframe,
                   main_report, budget_report, reports_created, next_report,
                   attempted, sales_stats, success_count, management_stats,
                   management_success, success, status, run, first_run, args, environ, paths, config_data, exception>>

\* save_report when writing the k-th file raises: that file is removed, the
\* exception leaves save_report and process_data, the files written before
\* it stay
SaveReportFails ==
    /\ pc = "budget"
    /\ \E k \in DOMAIN save_report(main_report, ReportsFolder, now) :
          report_files' = SubSeq(save_report(main_report, ReportsFolder, now), 1, k - 1)
    /\ pc' = "failed"
    /\ UNCHANGED <<now, config, source_file, quarter_columns, raw_df,
                   direct_q1_calculation, df_cleaned, df_pivot, timeframe,
                   main_report, budget_report, created_files, reports_created,
                   next_report, attempted, sales_stats, success_count,
                   management_stats, management_success, success, status, run,
                   first_run, args, environ, paths, config_data, exception>>

\* run_sales_report: reports_created = {...}; success_count = 0
MapReportFiles ==
    /\ pc = "returned"
    /\ reports_created' = MapReports(created_files)
    /\ success_count' = 0
    /\ next_report' = 1
    /\ pc' = IF ~config.test_mode /\ MapReports(created_files) = <<>>
             THEN "management" ELSE "sending"
    /\ UNCHANGED <<now, config, source_file, quarter_columns, raw_df,
                   direct_q1_calculation, df_cleaned, df_pivot, timeframe,
                   main_report, budget_report, created_files,
                   attempted, sales_stats, management_stats,
                   management_success, success, status, run, first_run,
                   report_files, args, environ, paths, config_data, exception>>

\* process_ae_report(ae_name, ...) with the result sent of sg.send: the new
\* values of attempted, sales_stats and success_count
ProcessAeReportEffect(ae_name, sent) ==
    LET r == calculate_sales_stats(main_report, ae_name, config, now)
    IN  /\ attempted' = attempted \cup {ae_name}
        /\ sales_stats' = IF r.raised THEN sales_stats
                          ELSE Append(sales_stats, [name |-> ae_name, stats |-> r.stats])
        /\ success_count' = IF ~r.raised /\ sent THEN success_count + 1
                            ELSE success_count

\* a variant of the production loop that leaves the loop at the first report
\* that was not sent
ProcessAeReportStopsAtFailure ==
    /\ pc = "sending"
    /\ ~config.test_mode
    /\ next_report <= Len(reports_created)
    /\ \E sent \in BOOLEAN :
          /\ ProcessAeReportEffect(reports_created[next_report].key, sent)
          /\ pc' = IF next_report = Len(reports_created) \/ ~sent
                   THEN "management" ELSE "sending"
    /\ next_report' = next_report + 1
    /\ UNCHANGED <<now, config, source_file, quarter_columns, raw_df,
                   direct_q1_calculation, df_cleaned, df_pivot, timeframe,
                   main_report, budget_report, created_files, reports_created,
                   management_stats, management_success, success, status, run,
                   first_run,
                   report_files, args, environ, paths, config_data, exception>>

\* run_sales_report, production mode: one iteration of the loop over
\* reports_created.items()
ProcessAeReport ==
    /\ pc = "sending"
    /\ ~config.test_mode
    /\ next_report <= Len(reports_created)
    /\ \E sent \in BOOLEAN :
          ProcessAeReportEffect(reports_created[next_report].key, sent)
    /\ next_report' = next_report + 1
    /\ pc' = IF next_report = Len(reports_created) THEN "management" ELSE "sending"
    /\ UNCHANGED <<now, config, source_file, quarter_columns, raw_df,
                   direct_q1_calculation, df_cleaned, df_pivot, timeframe,
                   main_report, budget_report, created_files, reports_created,
                   management_stats, management_success, success, status, run,
                   first_run,
                   report_files, args, environ, paths, config_data, exception>>

\* run_sales_report, test mode: the operator selects one of active_aes; its
\* report is processed if reports_created has one for that name
TestModeReport ==
    /\ pc = "sending"
    /\ config.test_mode
    /\ \E selection \in DOMAIN active_aes(config) :
          LET ae_name == active_aes(config)[selection]
          IN  IF GetReport(reports_created, ae_name) # None
              THEN \E sent \in BOOLEAN : ProcessAeReportEffect(ae_name, sent)
              ELSE UNCHANGED <<attempted, sales_stats, success_count>>
    /\ pc' = "management"
    /\ UNCHANGED <<now, config, source_file, quarter_columns, raw_df,
                   direct_q1_calculation, df_cleaned, df_pivot, timeframe,
                   main_report, budget_report, created_files, reports_created,
                   next_report, management_stats, management_success, success,
                   status, run, first_run,
                   report_files, args, environ, paths, config_data, exception>>

\* run_sales_report: the management report
SendManagementReport ==
    /\ pc = "management"
    /\ LET r == calculate_management_stats(main_report, config, now, now)
       IN  /\ management_stats' = r.stats
           /\ IF r.raised THEN management_success' = FALSE
              ELSE management_success' \in BOOLEAN
    /\ pc' = "summary"
    /\ UNCHANGED <<now, config, source_file, quarter_columns, raw_df,
                   direct_q1_calculation, df_cleaned, df_pivot, timeframe,
                   main_report, budget_report, created_files, reports_created,
                   next_report, attempted, sales_stats, success_count, success,
                   status, run, first_run,
                   report_files, args, environ, paths, config_data, exception>>

\* the year ends after process_data has returned and before the statistics
\* read the clock
NewYear ==
    /\ pc = "returned"
    /\ now \in Years
    /\ now' = now + 1
    /\ UNCHANGED <<config, source_file, quarter_columns, pc, raw_df,
                   direct_q1_calculation, df_cleaned, df_pivot, timeframe,
                   main_report, budget_report, created_files, reports_created,
                   next_report, attempted, sales_stats, success_count,
                   management_stats, management_success, success, status, run,
                   first_run, report_files, args, environ, paths, config_data, exception>>

\* the management report when the year ends inside calculate_management_stats,
\* after its own read of the clock and before the loop over the account
\* executives
SendManagementReportNewYear ==
    /\ pc = "management"
    /\ now \in Years
    /\ now' = now + 1
    /\ LET r == calculate_management_stats(main_report, config, now, now + 1)
       IN  /\ management_stats' = r.stats
           /\ IF r.raised THEN management_success' = FALSE
              ELSE management_success' \in BOOLEAN
    /\ pc' = "summary"
    /\ UNCHANGED <<config, source_file, quarter_columns, raw_df,
                   direct_q1_calculation, df_cleaned, df_pivot, timeframe,
                   main_report, budget_report, created_files, reports_created,
                   next_report, attempted, sales_stats, success_count, success,
                   status, run, first_run, report_files, args, environ, paths, config_data, exception>>

\* run_sales_report: success, status; return
Summarise ==
    /\ pc = "summary"
    /\ success' = (success_count = Len(reports_created) /\ management_success)
    /\ status' = IF success_count = Len(reports_created) /\ management_success
                 THEN "SUCCESS"
                 ELSE IF success_count > 0 \/ management_success
                 THEN "PARTIAL SUCCESS" ELSE "FAILURE"
    /\ pc' = "done"
    /\ UNCHANGED <<now, config, source_file, quarter_columns, raw_df,
                   direct_q1_calculation, df_cleaned, df_pivot, timeframe,
                   main_report, budget_report, created_files, reports_created,
                   next_report, attempted, sales_stats, success_count,
                   management_stats, management_success, run, first_run,
                   report_files, args, environ, paths, config_data, exception>>

\* run_sales_report: process_data raised; return False, config
CriticalError ==
    /\ pc = "failed"
    /\ success' = FALSE
    /\ pc' = "aborted"
    /\ UNCHANGED <<now, config, source_file, quarter_columns, raw_df,
                   direct_q1_calculation, df_cleaned, df_pivot, timeframe,
                   main_report, budget_report, created_files, reports_created,
                   next_report, attempted, sales_stats, success_count,
                   management_stats, management_success, status, run, first_run,
                   report_files, args, environ, paths, config_data, exception>>

Next ==
    \/ GetUnfilteredData
    \/ CalculateDirectYoy
    \/ CleanDataframe
    \/ CreatePivot
    \/ FilterTimeframe
    \/ CreateMainReport
    \/ CreateBudgetReport
    \/ SaveReport
    \/ MapReportFiles
    \/ ProcessAeReport
    \/ TestModeReport
    \/ SendManagementReport
    \/ Summarise
    \/ CriticalError

Spec == Init /\ [][Next]_vars

(***************************************************************************)
(* A second run of the job on the same source file and configuration: a    *)
(* new process reads the wall clock again and calls process_data again.    *)
(***************************************************************************)
Rerun ==
    /\ run = 1
    /\ pc \in {"returned", "failed"}
    /\ first_run' = [year |-> now, made |-> (pc = "returned"),
                     main_report |-> main_report, budget_report |-> budget_report]
    /\ run' = 2
    /\ now' \in {now, now + 1}
    /\ quarter_columns' = QuarterColumns(now')
    /\ pc' = "start"
    /\ raw_df' = None
    /\ direct_q1_calculation' = None
    /\ df_cleaned' = None
    /\ df_pivot' = None
    /\ timeframe' = None
    /\ main_report' = None
    /\ budget_report' = None
    /\ created_files' = None
    /\ report_files' = <<>>
    /\ UNCHANGED <<config, source_file, reports_created, next_report, attempted,
                   sales_stats, success_count, management_stats,
                   management_success, success, status, args, environ, paths,
                   config_data, exception>>

ProcessData ==
    \/ GetUnfilteredData
    \/ CalculateDirectYoy
    \/ CleanDataframe
    \/ CreatePivot
    \/ FilterTimeframe
    \/ CreateMainReport
    \/ CreateBudgetReport
    \/ SaveReport

NextRerun == ProcessData \/ Rerun

(***************************************************************************)
(* Runs with faults: a sheet that lacks a categorical column, a report     *)
(* file that cannot be written, a year that ends during the run.           *)
(***************************************************************************)
InitFaults ==
    /\ now \in Years
    /\ config \in Configs
    /\ source_file \in Sheets \cup SchemaSheets
    /\ quarter_columns = QuarterColumns(now)
    /\ pc = "start"
    /\ run = 1
    /\ first_run = None
    /\ Fresh
    /\ Configured

NextFaults ==
    \/ Next
    \/ SaveReportFails
    \/ NewYear
    \/ SendManagementReportNewYear

SpecFaults == InitFaults /\ [][NextFaults]_vars

SpecRerun == Init /\ [][NextRerun]_vars

(***************************************************************************)
(* Runs in other calendar years, on a sheet whose monthly columns are      *)
(* those of the year of the run and of the year before.                    *)
(***************************************************************************)
RunYears == {2026, 2100, 2101, 2110, 2111}

YearMonths(y) == <<Month(1, y - 1), Month(1, y), Month(4, y)>>

YearRow(ae, sector, month, text, y) ==
    [AE1 |-> ae, Sector |-> sector, Customer |-> Acme,
     cells |-> [c \in Range(YearMonths(y)) |-> IF c = month THEN text ELSE Blank]]

YearRowChoices(y) ==
    << YearRow(Alice, Electronics, Month(1, y - 1), T500, y),
       YearRow(Alice, Electronics, Month(1, y), TDollar1000, y),
       YearRow(Alice, Electronics, Month(1, y), TJunk, y),
       YearRow(Alice, UNASSIGNED, Month(1, y - 1), T500, y),
       YearRow(Bob, Electronics, Month(4, y), T250, y) >>

YearSheets(y) ==
    UNION { { [months |-> YearMonths(y), absent |-> {},
               rows |-> [i \in 1..n |-> YearRowChoices(y)[ix[i]]]] :
                ix \in { f \in [1..n -> DOMAIN YearRowChoices(y)] :
                           \A i \in 1..n, j \in 1..n : i < j => f[i] <= f[j] } } :
            n \in 0..MaxRows }

InitYears ==
    /\ now \in RunYears
    /\ config \in Configs
    /\ source_file \in YearSheets(now)
    /\ quarter_columns = QuarterColumns(now)
    /\ pc = "start"
    /\ run = 1
    /\ first_run = None
    /\ Fresh
    /\ Configured

SpecYears == InitYears /\ [][Next]_vars

(***************************************************************************)
(* Runs whose salespeople have a name that contains "-", the separator of  *)
(* the report file names.                                                  *)
(***************************************************************************)
Ann == <<"A", "n", "n">>
AnnMarie == <<"A", "n", "n", "-", "M", "a", "r", "i", "e">>

NameRowChoices ==
    << Row(AnnMarie, Electronics, Acme, Month(1, 2026), T1000),
       Row(AnnMarie, Electronics, Acme, Month(1, 2025), T500),
       Row(AnnMarie, UNASSIGNED, Acme, Month(4, 2026), T250),
       Row(Ann, Electronics, Acme, Month(1, 2026), T500),
       Row(Ann, Electronics, Acme, Month(1, 2026), TJunk) >>

NameSheets ==
    UNION { { [months |-> FileMonths, absent |-> {},
               rows |-> [i \in 1..n |-> NameRowChoices[ix[i]]]] :
                ix \in { f \in [1..n -> DOMAIN NameRowChoices] :
                           \A i \in 1..n, j \in 1..n : i < j => f[i] <= f[j] } } :
            n \in 0..MaxRows }

NameConfigs ==
    { [account_executives |->
           << AccountExecutive(AnnMarie, TRUE, ab), AccountExecutive(Ann, be, BobBudget) >>,
       test_mode |-> tm] :
      ab \in {ZeroBudget, AliceBudget}, be \in BOOLEAN, tm \in BOOLEAN }

InitNames ==
    /\ now \in Years
    /\ config \in NameConfigs
    /\ source_file \in NameSheets
    /\ quarter_columns = QuarterColumns(now)
    /\ pc = "start"
    /\ run = 1
    /\ first_run = None
    /\ Fresh
    /\ Configured

SpecNames == InitNames /\ [][Next]_vars

(***************************************************************************)
(* Config (config.py) and load_config (main.py).                           *)
(* A dict is a sequence of entries in insertion order. An environment is a *)
(* function from the names that are set to their values.                   *)
(***************************************************************************)
\* str.upper()
UpperChar(c) ==
    IF c \in Range(LowerCase)
    THEN UpperCase[CHOOSE i \in DOMAIN LowerCase : LowerCase[i] = c]
    ELSE c
Upper(s) == [i \in DOMAIN s |-> UpperChar(s[i])]

\* s.split(sep)
RECURSIVE Split(_, _)
Split(s, sep) ==
    IF \E i \in DOMAIN s : s[i] = sep
    THEN LET k == CHOOSE i \in DOMAIN s : s[i] = sep /\ \A j \in 1..(i - 1) : s[j] # sep
         IN  <<SubSeq(s, 1, k - 1)>> \o Split(SubSeq(s, k + 1, Len(s)), sep)
    ELSE <<s>>

\* the names of the environment variables
SENDGRID_API_KEY == <<"SENDGRID_API_KEY">>
SENDER_EMAIL == <<"SENDER_EMAIL">>
TEST_EMAIL == <<"TEST_EMAIL">>
\* f"AE_EMAILS_{ae.upper()}"
AEEmailsKey(ae) == <<"AE_EMAILS_">> \o Upper(ae)

\* os.getenv(key, default)
Getenv(env, key, default) == IF key \in DOMAIN env THEN env[key] ELSE default

\* addresses and other values, shortened
TestAddress == <<"t", "@", "x">>            \* the address of the tester
ManagerAddress == <<"m", "@", "x">>
AliceAddress == <<"a", "@", "x">>
BobAddresses == <<"b", "@", "x", ",", " ", "c", "@", "x">>
BadAddress == <<"b", "a", "d">>
DefaultSender == <<"p", "@", "c">>          \* "portaladmin@crossingstv.com"
DefaultTestEmail == <<"k", "@", "c">>       \* "kurt.olmstead@crossingstv.com"
ExampleTestEmail == <<"t", "@", "e">>       \* "test@example.com"
ApiKey == <<"S", "G">>
RootPath == <<"r", "o", "o", "t">>
VbaPath == <<"v", "b", "a">>

Environs ==
    { <<>>,
      SENDGRID_API_KEY :> ApiKey @@ TEST_EMAIL :> TestAddress
          @@ AEEmailsKey(Alice) :> AliceAddress @@ AEEmailsKey(Bob) :> BobAddresses,
      SENDGRID_API_KEY :> ApiKey @@ TEST_EMAIL :> TestAddress
          @@ AEEmailsKey(Alice) :> TestAddress @@ AEEmailsKey(Bob) :> TestAddress,
      SENDGRID_API_KEY :> ApiKey @@ SENDER_EMAIL :> BadAddress
          @@ AEEmailsKey(Alice) :> AliceAddress @@ AEEmailsKey(Bob) :> BobAddresses,
      TEST_EMAIL :> TestAddress @@ AEEmailsKey(Alice) :> BadAddress }

PathSets == { {RootPath, VbaPath}, {VbaPath}, {RootPath} }

\* a budgets entry of the file, and one that lacks q4
BudgetData(b) == [q1 |-> b[1], q2 |-> b[2], q3 |-> b[3], q4 |-> b[4]]
AccountExecutivesOf(be) ==
    << AccountExecutive(Alice, TRUE, AliceBudget), AccountExecutive(Bob, be, BobBudget) >>
AEBudgetsOf(include_bob) ==
    << [name |-> Alice, budget |-> BudgetData(AliceBudget)] >>
      \o (IF include_bob THEN << [name |-> Bob, budget |-> BudgetData(BobBudget)] >>
          ELSE <<>>)

\* configuration files: with an account_executives section (as the fixtures
\* of tests/conftest.py), with ae_list and ae_budgets, with both, with none
\* of the account executives, and the EXAMPLE_CONFIG of config.py
ConfigFiles ==
    { [root_path |-> RootPath, reports_folder |-> ReportsFolder, vba_path |-> VbaPath,
       account_executives |-> AccountExecutivesOf(be),
       management_recipients |-> <<ManagerAddress>>, test_mode |-> tm,
       test_email |-> ExampleTestEmail] : be \in BOOLEAN, tm \in BOOLEAN }
    \cup
    { [root_path |-> RootPath, reports_folder |-> ReportsFolder, vba_path |-> VbaPath,
       account_executives |-> <<>>] }
    \cup
    { [root_path |-> RootPath, reports_folder |-> ReportsFolder, vba_path |-> VbaPath,
       ae_list |-> l, ae_budgets |-> AEBudgetsOf(bob), test_mode |-> tm] :
         l \in {<<>>, <<Alice>>, <<Alice, Bob>>}, bob \in BOOLEAN, tm \in BOOLEAN }
    \cup
    { [root_path |-> RootPath, reports_folder |-> ReportsFolder, vba_path |-> VbaPath,
       ae_list |-> <<>>, ae_budgets |-> <<>>] }
    \cup
    { [root_path |-> RootPath, reports_folder |-> ReportsFolder, vba_path |-> VbaPath,
       ae_list |-> <<Alice, Bob>>, ae_budgets |-> AEBudgetsOf(TRUE),
       account_executives |-> AccountExecutivesOf(TRUE),
       management_recipients |-> <<ManagerAddress>>] }
    \cup
    { [root_path |-> RootPath, reports_folder |-> ReportsFolder, vba_path |-> VbaPath,
       sender_email |-> DefaultSender, test_mode |-> FALSE,
       email_recipients |-> << [ae |-> Alice, recipients |-> <<AliceAddress>>] >>,
       ae_budgets |-> AEBudgetsOf(TRUE)] }

Raise(type, message) ==
    [raised |-> TRUE, exception |-> [type |-> type, message |-> message], config |-> None]
Return(cfg) == [raised |-> FALSE, exception |-> NoException, config |-> cfg]

\* Config._load_email_recipients
_load_email_recipients(ae_list, env) ==
    [i \in DOMAIN ae_list |->
        LET emails_str == Getenv(env, AEEmailsKey(ae_list[i]), <<>>)
        IN  [ae |-> ae_list[i],
             recipients |->
                 IF emails_str # <<>>
                 THEN [k \in DOMAIN Split(emails_str, ",") |->
                          Strip(Split(emails_str, ",")[k])]
                 ELSE <<>>]]

\* AEBudget(**budget_data): TypeError unless the keys are q1..q4
AEBudgetRaises(budget_data) == DOMAIN budget_data # {"q1", "q2", "q3", "q4"}

\* Config.load_from_json
load_from_json(data, env) ==
    IF "ae_budgets" \notin DOMAIN data THEN Raise("KeyError", "ae_budgets")
    ELSE IF \E i \in DOMAIN data.ae_budgets : AEBudgetRaises(data.ae_budgets[i].budget)
    THEN Raise("TypeError", "AEBudget")
    ELSE IF "ae_list" \notin DOMAIN data THEN Raise("KeyError", "ae_list")
    ELSE IF "root_path" \notin DOMAIN data THEN Raise("KeyError", "root_path")
    ELSE IF "reports_folder" \notin DOMAIN data THEN Raise("KeyError", "reports_folder")
    ELSE IF "vba_path" \notin DOMAIN data THEN Raise("KeyError", "vba_path")
    ELSE Return([root_path |-> data.root_path,
                 reports_folder |-> data.reports_folder,
                 vba_path |-> data.vba_path,
                 sendgrid_api_key |-> Getenv(env, SENDGRID_API_KEY, <<>>),
                 sender_email |-> Getenv(env, SENDER_EMAIL, DefaultSender),
                 email_recipients |-> _load_email_recipients(data.ae_list, env),
                 ae_budgets |-> data.ae_budgets,
                 test_mode |-> IF "test_mode" \in DOMAIN data THEN data.test_mode ELSE FALSE,
                 test_email |-> Getenv(env, TEST_EMAIL, DefaultTestEmail)])

\* the first entry of email_recipients that fails a check, or 0
FirstEntry(entries, Fails(_)) ==
    IF \E i \in DOMAIN entries : Fails(entries[i])
    THEN CHOOSE i \in DOMAIN entries :
             Fails(entries[i]) /\ \A j \in 1..(i - 1) : ~Fails(entries[j])
    ELSE 0

HasAt(email) == "@" \in Range(email)

\* Config.validate: [raised, exception, makedirs (whether the reports folder
\* was made)]
validate(cfg, existing) ==
    LET error(message, made) ==
            [raised |-> TRUE, exception |-> [type |-> "ValueError", message |-> message],
             makedirs |-> made]
        not_test == FirstEntry(cfg.email_recipients,
                               LAMBDA e : e.recipients # <<cfg.test_email>>)
        bad == FirstEntry(cfg.email_recipients,
                          LAMBDA e : e.recipients = <<>>
                                       \/ \E k \in DOMAIN e.recipients : ~HasAt(e.recipients[k]))
        no_budget == FirstEntry(cfg.email_recipients,
                                LAMBDA e : \A k \in DOMAIN cfg.ae_budgets :
                                              cfg.ae_budgets[k].name # e.ae)
    IN  IF cfg.root_path \notin existing
        THEN error("Root path does not exist", FALSE)
        ELSE IF cfg.vba_path \notin existing
        THEN error("VBA project file does not exist", FALSE)
        ELSE IF cfg.sendgrid_api_key = <<>> /\ ~cfg.test_mode
        THEN error("SendGrid API key is not set", TRUE)
        ELSE IF cfg.sender_email = <<>> \/ ~HasAt(cfg.sender_email)
        THEN error("Invalid sender email", TRUE)
        ELSE IF cfg.test_mode /\ not_test # 0
        THEN error("Test mode recipients contain non-test emails", TRUE)
        ELSE IF ~cfg.test_mode /\ bad # 0
        THEN error(IF cfg.email_recipients[bad].recipients = <<>>
                   THEN "No email recipients specified"
                   ELSE "Invalid email address", TRUE)
        ELSE IF cfg.ae_budgets = <<>>
        THEN error("No AE budgets specified", TRUE)
        ELSE IF no_budget # 0
        THEN error("No budget specified for AE", TRUE)
        ELSE [raised |-> FALSE, exception |-> NoException, makedirs |-> TRUE]

\* load_config: config = Config.load_from_json(config_file)
LoadFromJson ==
    /\ pc = "config"
    /\ LET r == load_from_json(config_data, environ)
       IN  /\ config' = r.config
           /\ exception' = r.exception
           /\ pc' = IF r.raised THEN "failed" ELSE "loaded"
    /\ UNCHANGED <<now, source_file, quarter_columns, raw_df,
                   direct_q1_calculation, df_cleaned, df_pivot, timeframe,
                   main_report, budget_report, created_files, reports_created,
                   next_report, attempted, sales_stats, success_count,
                   management_stats, management_success, success, status, run,
                   first_run, report_files, args, environ, paths, config_data>>

\* load_config: if test_mode: ... ; config.active_aes is an AttributeError
\* on a Config that has no account executives attribute
OverrideForTestMode ==
    /\ pc = "loaded"
    /\ IF ~args.test
       THEN /\ pc' = "overridden"
            /\ UNCHANGED <<config, exception>>
       ELSE IF ~HasAttr(config, "account_executives")
       THEN /\ pc' = "failed"
            /\ config' = None
            /\ exception' = [type |-> "AttributeError", message |-> "active_aes"]
       ELSE LET test_email == Getenv(environ, TEST_EMAIL, ExampleTestEmail)
            IN  /\ pc' = "overridden"
                /\ config' =
                     [config EXCEPT
                        !.test_mode = TRUE,
                        !.test_email = test_email,
                        !.email_recipients =
                            [i \in DOMAIN active_aes(config) |->
                                [ae |-> active_aes(config)[i],
                                 recipients |-> <<test_email>>]],
                        !.management_recipients = <<test_email>>]
                /\ UNCHANGED exception
    /\ UNCHANGED <<now, source_file, quarter_columns, raw_df,
                   direct_q1_calculation, df_cleaned, df_pivot, timeframe,
                   main_report, budget_report, created_files, reports_created,
                   next_report, attempted, sales_stats, success_count,
                   management_stats, management_success, success, status, run,
                   first_run, report_files, args, environ, paths, config_data>>

\* load_config: config.validate(); return config
Validate ==
    /\ pc = "overridden"
    /\ LET r == validate(config, paths)
       IN  /\ paths' = IF r.makedirs THEN paths \cup {config.reports_folder} ELSE paths
           /\ exception' = r.exception
           /\ config' = IF r.raised THEN None ELSE config
           /\ pc' = IF r.raised THEN "failed" ELSE "validated"
    /\ UNCHANGED <<now, source_file, quarter_columns, raw_df,
                   direct_q1_calculation, df_cleaned, df_pivot, timeframe,
                   main_report, budget_report, created_files, reports_created,
                   next_report, attempted, sales_stats, success_count,
                   management_stats, management_success, success, status, run,
                   first_run, report_files, args, environ, config_data>>

\* run_sales_report: data_processor = DataProcessor(config), ...
InitializeComponents ==
    /\ pc = "validated"
    /\ quarter_columns' = DataProcessor(config, now).quarter_columns
    /\ pc' = "start"
    /\ UNCHANGED <<now, config, source_file, raw_df,
                   direct_q1_calculation, df_cleaned, df_pivot, timeframe,
                   main_report, budget_report, created_files, reports_created,
                   next_report, attempted, sales_stats, success_count,
                   management_stats, management_success, success, status, run,
                   first_run, report_files, args, environ, paths, config_data,
                   exception>>

EmptySheet == [months |-> FileMonths, absent |-> {}, rows |-> <<>>]

InitConfig ==
    /\ now \in Years
    /\ config = None
    /\ source_file = EmptySheet
    /\ quarter_columns = None
    /\ pc = "config"
    /\ run = 1
    /\ first_run = None
    /\ Fresh
    /\ args \in [test : BOOLEAN]
    /\ environ \in Environs
    /\ paths \in PathSets
    /\ config_data \in ConfigFiles
    /\ exception = NoException

NextConfig ==
    \/ LoadFromJson
    \/ OverrideForTestMode
    \/ Validate
    \/ InitializeComponents
    \/ CriticalError

SpecConfig == InitConfig /\ [][NextConfig]_vars

(***************************************************************************)
(* Runs from load_config to the summary. config.py's Config has none of    *)
(* the attributes account_executives, active_aes and management_recipients *)
(* that main.py, data_processor.py, sales_analytics.py and email_sender.py *)
(* read; LoadedConfig is the Config those modules expect of                *)
(* load_from_json: the attributes config.py sets, the account executives   *)
(* and the management recipients of the file.                              *)
(***************************************************************************)
LoadedConfig(data, env) ==
    LET enabled == SelectSeq(data.account_executives, LAMBDA ae : ae.enabled)
    IN  [root_path |-> data.root_path,
         reports_folder |-> data.reports_folder,
         vba_path |-> data.vba_path,
         sendgrid_api_key |-> Getenv(env, SENDGRID_API_KEY, <<>>),
         sender_email |-> Getenv(env, SENDER_EMAIL, DefaultSender),
         email_recipients |->
             _load_email_recipients([i \in DOMAIN enabled |-> enabled[i].name], env),
         ae_budgets |-> [i \in DOMAIN data.account_executives |->
                            [name |-> data.account_executives[i].name,
                             budget |-> BudgetData(data.account_executives[i].budgets)]],
         test_mode |-> IF "test_mode" \in DOMAIN data THEN data.test_mode ELSE FALSE,
         test_email |-> Getenv(env, TEST_EMAIL, DefaultTestEmail),
         account_executives |-> data.account_executives,
         management_recipients |-> data.management_recipients]

MailConfigFiles ==
    { [root_path |-> RootPath, reports_folder |-> ReportsFolder, vba_path |-> VbaPath,
       account_executives |-> AccountExecutivesOf(be),
       management_recipients |-> mr, test_mode |-> tm,
       test_email |-> ExampleTestEmail] :
         be \in BOOLEAN, tm \in BOOLEAN, mr \in {<<ManagerAddress>>, <<TestAddress>>} }

MailSheets ==
    { sheet \in Sheets :
        \A i \in DOMAIN sheet.rows :
            sheet.rows[i] \in {RowChoices[1], RowChoices[5], RowChoices[12]} }

\* EmailSender._get_recipients: the list, empty when it raises
_get_recipients(cfg, ae_name) ==
    LET hits == SelectSeq(cfg.email_recipients, LAMBDA e : e.ae = ae_name)
    IN  IF hits = <<>> THEN <<>> ELSE hits[1].recipients

\* EmailSender.send_management_report: the recipients of the mail
ManagementRecipients(cfg) ==
    IF Len(cfg.management_recipients) = 1
    THEN Split(cfg.management_recipients[1], ",")
    ELSE cfg.management_recipients

InitMail ==
    /\ now \in Years
    /\ args \in [test : BOOLEAN]
    /\ environ \in Environs
    /\ paths = {RootPath, VbaPath}
    /\ config_data \in MailConfigFiles
    /\ config = LoadedConfig(config_data, environ)
    /\ exception = NoException
    /\ source_file \in MailSheets
    /\ quarter_columns = None
    /\ pc = "loaded"
    /\ run = 1
    /\ first_run = None
    /\ Fresh

NextMail ==
    \/ OverrideForTestMode
    \/ Validate
    \/ InitializeComponents
    \/ Next

SpecMail == InitMail /\ [][NextMail]_vars

(***************************************************************************)
(* Properties.                                                             *)
(***************************************************************************)
MainReportMade ==
    pc \in {"main", "budget", "returned", "sending", "management", "summary", "done"}

BudgetReportMade ==
    pc \in {"budget", "returned", "sending", "management", "summary", "done"}

DirectMade == pc \notin {"start", "read", "failed", "aborted"}

ManagementMade == pc \in {"summary", "done"}

\* the labels of the quarters of the current and of the previous year
CurrentQuarterLabels == {YearQuarter(Month(m, now)) : m \in {1, 4, 7, 10}}
PreviousQuarterLabels == {YearQuarter(Month(m, now - 1)) : m \in {1, 4, 7, 10}}

\* the rows of the Budget report of one salesperson and one Sector
BudgetReportRows(name, sector) ==
    SelectSeq(budget_report.rows, LAMBDA r : r.AE1 = name /\ r.Sector = sector)

\* the value of such a row in one quarter, 0 when the report has no such row
BudgetReportValue(name, sector, l) ==
    SumSeq([i \in DOMAIN BudgetReportRows(name, sector) |->
              BudgetReportRows(name, sector)[i].q[l]])

\* C1 (reconciliation identity): for every enabled salesperson and every
\* quarter of the current year, the Assigned value of the Budget report plus
\* its Unassigned value (0 when there is no Unassigned row) equals the sum
\* of that quarter over all rows of the salesperson in the main report.
C1_Reconciliation ==
    BudgetReportMade =>
        \A i \in DOMAIN EnabledAEs(config) : \A l \in CurrentQuarterLabels :
            LET name == EnabledAEs(config)[i].name
            IN  /\ Len(BudgetReportRows(name, AssignedText)) = 1
                /\ BudgetReportValue(name, AssignedText, l)
                     + BudgetReportValue(name, UNASSIGNED, l)
                   = QuarterSum(RowsOf(main_report, name), l)

\* a salesperson with assigned and unassigned revenue in the same quarter
C1_Witness ==
    /\ BudgetReportMade
    /\ \E i \in DOMAIN EnabledAEs(config) : \E l \in CurrentQuarterLabels :
          LET name == EnabledAEs(config)[i].name
          IN  /\ BudgetReportValue(name, AssignedText, l) > 0
              /\ BudgetReportValue(name, UNASSIGNED, l) > 0

\* the records that survive the filtering and carry a (row key, quarter)
HasData(r, l) ==
    \E i \in DOMAIN timeframe :
        /\ timeframe[i].AE1 = r.AE1
        /\ FillNa(timeframe[i].Sector, UnspecifiedSector) = r.Sector
        /\ FillNa(timeframe[i].Customer, UnspecifiedCustomer) = r.Customer
        /\ timeframe[i].Year_Quarter = l

\* C2 (quarter completeness): the main report has exactly the 8 quarter
\* columns of the previous and the current year, whatever the input holds;
\* a cell of a quarter without data is 0.
C2_QuarterCompleteness ==
    MainReportMade =>
        /\ Len(main_report.quarters) = 8
        /\ Range(main_report.quarters) = PreviousQuarterLabels \cup CurrentQuarterLabels
        /\ \A i \in DOMAIN main_report.rows :
              /\ DOMAIN main_report.rows[i].q = Range(main_report.quarters)
              /\ \A l \in Range(main_report.quarters) :
                    ~HasData(main_report.rows[i], l) => main_report.rows[i].q[l] = 0

\* no record survives the filtering of a sheet that has rows: the report
\* has no row and still has its 8 columns
C2_Witness ==
    /\ MainReportMade
    /\ source_file.rows # <<>>
    /\ timeframe = <<>>
    /\ main_report.rows = <<>>

\* the sheet without its cells that hold a number that is not positive
PositiveOnly(sheet) ==
    [sheet EXCEPT !.rows =
        [i \in DOMAIN sheet.rows |->
            [sheet.rows[i] EXCEPT !.cells =
                [c \in DOMAIN @ |->
                    IF IsPositive(ToNumericCoerce(@[c])) \/ ToNumericCoerce(@[c]).nan
                    THEN @[c] ELSE Blank]]]]

\* the main report that process_data makes of a sheet
MainReportOf(sheet, cfg, year) ==
    _create_main_report(
        _filter_timeframe(_create_pivot(_clean_dataframe(sheet), year), year),
        cfg, year)

\* C3 (non-negativity filter): a monthly amount that is not positive is
\* excluded from every aggregate, the totals of the direct
\* year-over-year calculation included: the aggregates are those of the
\* sheet without such amounts.
C3_NonNegativeFilter ==
    /\ DirectMade =>
          LET r == calculate_direct_yoy_change(PositiveOnly(source_file),
                                               now - 1, now, 1, 3).result
          IN  /\ direct_q1_calculation.previous_year_total = r.previous_year_total
              /\ direct_q1_calculation.current_year_total = r.current_year_total
    /\ MainReportMade =>
          main_report = MainReportOf(PositiveOnly(source_file), config, now)

\* the statistics of one salesperson as calculate_sales_stats gives them
StatsOf(name) == calculate_sales_stats(main_report, name, config, now)

\* C4 (rollup consistency): the total_revenue of the management statistics
\* equals the sum of total_assigned_revenue over the enabled salespeople.
C4_RollupConsistency ==
    ManagementMade =>
        management_stats.total_revenue
          = SumSeq([i \in DOMAIN EnabledAEs(config) |->
                      StatsOf(EnabledAEs(config)[i].name).stats.total_assigned_revenue])

\* C5 (uniform zero-denominator rule): wherever a year-over-year change is
\* computed and the prior-year value is 0, the change is 0: per
\* salesperson and quarter, per salesperson and year, per company quarter
\* and for the company year.
C5_UniformZeroYoy ==
    ManagementMade =>
        /\ \A i \in DOMAIN management_stats.ae_data :
              LET ae == management_stats.ae_data[i]
              IN  /\ ae.previous_year_revenue = 0 => IsZero(ae.year_over_year_change)
                  /\ \A q \in 1..4 :
                        ae.quarters[q].previous_year_assigned = 0
                          => IsZero(ae.quarters[q].year_over_year_change)
        /\ \A q \in 1..4 :
              management_stats.company_quarters[q].previous_year_assigned = 0
                => IsZero(management_stats.company_quarters[q].year_over_year_change)
        /\ management_stats.total_previous_year_revenue = 0
             => IsZero(management_stats.total_year_over_year_change)

\* x is assigned / budget * 100, and 0 when budget is 0
IsExactCompletion(x, assigned, budget) ==
    IF budget = 0 THEN IsZero(x) ELSE FracEq(x, Frac(assigned * 100, budget))

\* x is a whole number at most one half away from assigned / budget * 100,
\* and 0 when budget is 0
IsRoundedCompletion(x, assigned, budget) ==
    IF budget = 0 THEN IsZero(x)
    ELSE /\ x.den = 1
         /\ 2 * (x.num * budget - assigned * 100) <= budget
         /\ 2 * (assigned * 100 - x.num * budget) <= budget

\* the per-salesperson quarterly values: the QuarterData entries of the
\* statistics computed for the emails
SalesQuartersExact ==
    \A i \in DOMAIN sales_stats : \A q \in 1..4 :
        LET d == sales_stats[i].stats.quarterly_data[q]
        IN  IsExactCompletion(d.completion_percentage, d.assigned, d.budget)

C8_BudgetReportRows ==
    BudgetReportMade =>
        \A i \in DOMAIN config.account_executives :
            LET ae == config.account_executives[i]
                budget_rows == BudgetReportRows(ae.name, BudgetText)
                assigned_rows == BudgetReportRows(ae.name, AssignedText)
            IN  IF ae.enabled
                THEN /\ Len(budget_rows) = 1
                     /\ \A q \in 1..4 :
                           budget_rows[1].q[YearQuarter(Month(3 * q, now))]
                             = ae.budgets[q]
                     /\ Len(assigned_rows) = 1
                     /\ RowsOf(main_report, ae.name) = <<>>
                          => \A l \in CurrentQuarterLabels : assigned_rows[1].q[l] = 0
                ELSE budget_rows = <<>> /\ assigned_rows = <<>>

\* an enabled salesperson without rows in the main report, next to a
\* disabled one who has rows in the sheet
C8_Witness ==
    /\ BudgetReportMade
    /\ \E i \in DOMAIN config.account_executives :
          /\ config.account_executives[i].enabled
          /\ SumSeq(config.account_executives[i].budgets) > 0
          /\ RowsOf(main_report, config.account_executives[i].name) = <<>>
    /\ \E i \in DOMAIN config.account_executives :
          /\ ~config.account_executives[i].enabled
          /\ \E j \in DOMAIN source_file.rows :
                source_file.rows[j].AE1 = config.account_executives[i].name

\* the salespeople for whom an email was prepared and handed to the sender
Emailed == {sales_stats[i].name : i \in DOMAIN sales_stats}

\* C9 (zero-revenue salesperson): in a production run every enabled
\* salesperson, with rows or without, has a report file and an email
\* attempt.
C9_EveryEnabledReported ==
    (pc = "done" /\ ~config.test_mode) =>
        \A i \in DOMAIN active_aes(config) :
            /\ GetReport(reports_created, active_aes(config)[i]) # None
            /\ active_aes(config)[i] \in Emailed

\* C10 (Unassigned row presence): the Budget report has an Unassigned row
\* for a salesperson only if the sum of that salesperson's
\* "AAA - UNASSIGNED" revenue over the quarters of the current year is not 0.
C10_UnassignedRowNonZero ==
    BudgetReportMade =>
        \A i \in DOMAIN budget_report.rows :
            budget_report.rows[i].Sector = UNASSIGNED =>
                SumSeq([q \in 1..4 |->
                          budget_report.rows[i].q[YearQuarter(Month(3 * q, now))]]) # 0

\* C7 (idempotence and determinism), as the code has it: two runs on the
\* same source file and configuration whose wall-clock reads fall in the
\* same calendar year end alike and give the same main report and Budget
\* report, and the tables are those of the sheet as read: what the direct
\* year-over-year step leaves in the table does not change them.
C7_SameYearSameReports ==
    /\ pc = "returned" =>
          /\ main_report = MainReportOf(source_file, config, now)
          /\ budget_report = _create_budget_report(main_report, config,
                                                   QuarterColumns(now))
    /\ (run = 2 /\ first_run.year = now) =>
          /\ pc = "failed" => ~first_run.made
          /\ (pc = "returned" /\ first_run.made) =>
                /\ main_report = first_run.main_report
                /\ budget_report = first_run.budget_report

\* C7 as stated: two runs on the same source file and configuration give
\* the same report tables, whatever the wall clock reads.
C7_SameReports ==
    (run = 2 /\ pc = "returned" /\ first_run.made) =>
        /\ main_report = first_run.main_report
        /\ budget_report = first_run.budget_report

\* a second run of the same year has made its reports, of a sheet that the
\* direct year-over-year step converted in place
C7_Witness ==
    /\ run = 2
    /\ pc = "returned"
    /\ first_run.made
    /\ first_run.year = now
    /\ raw_df # source_file
    /\ main_report.rows # <<>>

\* the salesperson name, trimmed and lower-cased, is in the lower-cased
\* active set
Authorized(name) ==
    \E i \in DOMAIN config.account_executives :
        /\ config.account_executives[i].enabled
        /\ Lower(Strip(name)) = Lower(config.account_executives[i].name)

\* the records that passed the year and amount filters and belong to the
\* key of row r and to quarter l
RecordsOf(r, l) ==
    SelectSeq(timeframe, LAMBDA t :
        /\ t.AE1 = r.AE1
        /\ FillNa(t.Sector, UnspecifiedSector) = r.Sector
        /\ FillNa(t.Customer, UnspecifiedCustomer) = r.Customer
        /\ t.Year_Quarter = l)

\* a monthly cell of the sheet that is no number once '$' and ',' are removed
HasUnparseable(sheet) ==
    \E j \in DOMAIN sheet.rows : \E c \in DOMAIN sheet.rows[j].cells :
        /\ sheet.rows[j].cells[c] # Blank
        /\ ~IsNumeric(StripCurrency(sheet.rows[j].cells[c]))

\* C11 (authorized-salesperson filter): every row of the main report has an
\* authorized salesperson; the amount of every record of an authorized
\* salesperson that passed the year and amount filters is in the report;
\* a record of an unauthorized salesperson is in no row, and a sheet with
\* such a record does not make the run fail.
C11_AuthorizedFilter ==
    /\ MainReportMade =>
          /\ \A i \in DOMAIN main_report.rows : Authorized(main_report.rows[i].AE1)
          /\ \A k \in DOMAIN timeframe :
                IF Authorized(timeframe[k].AE1)
                THEN \E i \in DOMAIN main_report.rows :
                        /\ main_report.rows[i].AE1 = timeframe[k].AE1
                        /\ main_report.rows[i].q[timeframe[k].Year_Quarter]
                             >= timeframe[k].Amt.v
                ELSE \A i \in DOMAIN main_report.rows :
                        main_report.rows[i].AE1 # timeframe[k].AE1
    /\ (~HasUnparseable(source_file)
          /\ \E j \in DOMAIN source_file.rows : ~Authorized(source_file.rows[j].AE1))
         => pc \notin {"failed", "aborted"}

\* a report made of a record of a disabled salesperson and a record of an
\* enabled one written in another case and with a trailing blank
C11_Witness ==
    /\ MainReportMade
    /\ \E k \in DOMAIN timeframe : ~Authorized(timeframe[k].AE1)
    /\ \E i \in DOMAIN main_report.rows :
          /\ main_report.rows[i].AE1 \notin Range(active_aes(config))
          /\ \E l \in CurrentQuarterLabels : main_report.rows[i].q[l] > 0

\* C12 (unique key): the main report has at most one row per (salesperson,
\* category, customer), and each cell is the sum of the amounts of all
\* surviving records of that key and quarter.
C12_UniqueKey ==
    MainReportMade =>
        /\ \A i, j \in DOMAIN main_report.rows :
              KeyOf(main_report.rows[i]) = KeyOf(main_report.rows[j]) => i = j
        /\ \A i \in DOMAIN main_report.rows : \A l \in Range(main_report.quarters) :
              main_report.rows[i].q[l]
                = SumSeq([k \in DOMAIN RecordsOf(main_report.rows[i], l) |->
                            RecordsOf(main_report.rows[i], l)[k].Amt.v])

\* a cell that sums two records: two deal rows or two months of one key
C12_Witness ==
    /\ MainReportMade
    /\ \E i \in DOMAIN main_report.rows : \E l \in Range(main_report.quarters) :
          Len(RecordsOf(main_report.rows[i], l)) >= 2

\* C13 (row retention): every (salesperson, category, customer) with a
\* record that passed the year, amount and authorization filters is a row
\* of the main report; a missing category or customer shows under its
\* sentinel label.
C13_RowRetention ==
    MainReportMade =>
        \A k \in DOMAIN timeframe :
            Authorized(timeframe[k].AE1) =>
                \E i \in DOMAIN main_report.rows :
                    /\ main_report.rows[i].AE1 = timeframe[k].AE1
                    /\ main_report.rows[i].Sector
                         = FillNa(timeframe[k].Sector, UnspecifiedSector)
                    /\ main_report.rows[i].Sector # NaNText
                    /\ main_report.rows[i].Customer
                         = FillNa(timeframe[k].Customer, UnspecifiedCustomer)
                    /\ main_report.rows[i].Customer # NaNText

\* a surviving record whose customer was missing in the sheet
C13_Witness ==
    /\ MainReportMade
    /\ \E k \in DOMAIN timeframe :
          /\ Authorized(timeframe[k].AE1)
          /\ timeframe[k].Customer = NaNText
    /\ \E i \in DOMAIN main_report.rows :
          main_report.rows[i].Customer = UnspecifiedCustomer

\* the sheet with 0 in every monthly cell that is no number
UnparseableAsZero(sheet) ==
    [sheet EXCEPT !.rows =
        [j \in DOMAIN sheet.rows |->
            [sheet.rows[j] EXCEPT !.cells =
                [c \in DOMAIN @ |->
                    IF @[c] # Blank /\ ~IsNumeric(StripCurrency(@[c]))
                    THEN <<"0">> ELSE @[c]]]]]

\* C14 (parse coercion): a monthly cell that is no number counts as 0
\* whichever column it is in: process_data does not fail, and the direct
\* totals and the main report are those of the sheet with 0 in that cell.
C14_ParseCoercion ==
    /\ pc \notin {"failed", "aborted"}
    /\ DirectMade =>
          LET r == calculate_direct_yoy_change(UnparseableAsZero(source_file),
                                               now - 1, now, 1, 3).result
          IN  /\ direct_q1_calculation.previous_year_total = r.previous_year_total
              /\ direct_q1_calculation.current_year_total = r.current_year_total
    /\ MainReportMade =>
          main_report = MainReportOf(UnparseableAsZero(source_file), config, now)

\* the statistics are asked for a table that lacks a quarter column of the
\* two years they read
RollupColumnAbsent ==
    /\ pc \in {"sending", "management", "summary", "done"}
    /\ ~(Range(AllQuarters(now)) \subseteq Range(main_report.quarters))

\* C15 (schema errors are fatal): with a categorical column absent from the
\* sheet the run aborts and leaves no report file and no statistics; with a
\* year-quarter column absent from the table handed to the statistics the
\* run aborts as well: it does not go on to its summary.
C15_SchemaErrorsFatal ==
    /\ source_file.absent # {} =>
          /\ pc \in {"start", "read", "direct", "cleaned", "failed", "aborted"}
          /\ report_files = <<>>
          /\ sales_stats = <<>>
    /\ RollupColumnAbsent => pc \notin {"summary", "done"}

\* C16 (no silent partial success): the management statistics that are
\* returned to the caller hold an entry for every enabled salesperson: an
\* error in the rollup of one of them is not answered by leaving that
\* salesperson out.
C16_NoSilentPartial ==
    (pc \in {"summary", "done"} /\ management_success = TRUE) =>
        \A i \in DOMAIN EnabledAEs(config) :
            \E k \in DOMAIN management_stats.ae_data :
                management_stats.ae_data[k].name = EnabledAEs(config)[i].name

\* C17 (atomic run): process_data returns with a file for every salesperson
\* of the report, or raises and leaves no file of this run in the reports
\* folder.
C17_AtomicRun ==
    /\ pc \in {"returned", "sending", "management", "summary", "done"} =>
          /\ Len(report_files) = Len(SalesPeople(main_report))
          /\ \A i \in DOMAIN report_files :
                SplitFirst(Basename(report_files[i]), "-") = SalesPeople(main_report)[i]
    /\ pc \in {"failed", "aborted"} => report_files = <<>>

\* the input of the worked example: Alice the only authorized salesperson,
\* a Q1 budget of 2,000, one deal of $1,000 in Electronics in the first
\* month of the current year
WorkedExample ==
    /\ source_file.absent = {}
    /\ source_file.rows = <<Row(Alice, Electronics, Acme, Month(1, now), TDollar1000)>>
    /\ active_aes(config) = <<Alice>>
    /\ GetAE(config, Alice)[1].budgets[1] = 2000

\* C18 (worked example): the main report has the one row (Alice,
\* Electronics, customer) with 1000 in the Q1 column of the current year and
\* 0 in the other 7 columns; the Budget report has Assigned Q1 = 1000, no
\* unassigned revenue and Budget Q1 = 2000; calculate_sales_stats gives a Q1
\* completion of 50.
C18_WorkedExample ==
    WorkedExample =>
        LET q1 == YearQuarter(Month(1, now))
        IN  /\ pc \notin {"failed", "aborted"}
            /\ MainReportMade =>
                  /\ Len(main_report.rows) = 1
                  /\ KeyOf(main_report.rows[1]) = <<Alice, Electronics, Acme>>
                  /\ Cardinality(DOMAIN main_report.rows[1].q) = 8
                  /\ \A l \in DOMAIN main_report.rows[1].q :
                        main_report.rows[1].q[l] = IF l = q1 THEN 1000 ELSE 0
            /\ BudgetReportMade =>
                  /\ Len(BudgetReportRows(Alice, AssignedText)) = 1
                  /\ BudgetReportRows(Alice, AssignedText)[1].q[q1] = 1000
                  /\ Len(BudgetReportRows(Alice, BudgetText)) = 1
                  /\ BudgetReportRows(Alice, BudgetText)[1].q[q1] = 2000
                  /\ BudgetReportValue(Alice, UNASSIGNED, q1) = 0
            /\ \A i \in DOMAIN sales_stats :
                  LET d == sales_stats[i].stats.quarterly_data[1]
                  IN  /\ sales_stats[i].name = Alice
                      /\ d.assigned = 1000
                      /\ d.unassigned = 0
                      /\ d.budget = 2000
                      /\ FracEq(d.completion_percentage, Whole(50))

\* the run of the worked example has ended and Alice's statistics were
\* computed
C18_Witness ==
    /\ WorkedExample
    /\ pc = "done"
    /\ sales_stats # <<>>

\* C19 (residual and direct computation agree): for every salesperson whose
\* statistics are computed and every quarter of the current year, the
\* Assigned value of the Budget report equals the assigned revenue of
\* calculate_sales_stats, and the Unassigned values agree as well.
C19_ResidualEqualsDirect ==
    /\ \A i \in DOMAIN sales_stats : \A q \in 1..4 :
          LET d == sales_stats[i].stats.quarterly_data[q]
              l == YearQuarter(Month(3 * q, now))
          IN  /\ d.assigned = BudgetReportValue(sales_stats[i].name, AssignedText, l)
              /\ d.unassigned = BudgetReportValue(sales_stats[i].name, UNASSIGNED, l)
    /\ (ManagementMade /\ management_success = TRUE) =>
          \A i \in DOMAIN management_stats.ae_data : \A q \in 1..4 :
              LET d == management_stats.ae_data[i].quarters[q]
                  l == YearQuarter(Month(3 * q, now))
              IN  /\ d.assigned
                       = BudgetReportValue(management_stats.ae_data[i].name, AssignedText, l)
                  /\ d.unassigned
                       = BudgetReportValue(management_stats.ae_data[i].name, UNASSIGNED, l)

\* statistics of a salesperson with assigned and with unassigned revenue in
\* one quarter
C19_Witness ==
    \E i \in DOMAIN sales_stats : \E q \in 1..4 :
        /\ sales_stats[i].stats.quarterly_data[q].assigned > 0
        /\ sales_stats[i].stats.quarterly_data[q].unassigned > 0

\* C20 (company statistics): in every quarter of the current year the
\* assigned, unassigned, previous_year_assigned and budget of the company
\* are the sums of those of the enabled salespeople, and the company
\* completion is company assigned / company budget * 100.
C20_CompanyIsSum ==
    (ManagementMade /\ management_success = TRUE) =>
        \A q \in 1..4 :
            LET c == management_stats.company_quarters[q]
                enabled == EnabledAEs(config)
                d(i) == StatsOf(enabled[i].name).stats.quarterly_data[q]
            IN  /\ c.assigned = SumSeq([i \in DOMAIN enabled |-> d(i).assigned])
                /\ c.unassigned = SumSeq([i \in DOMAIN enabled |-> d(i).unassigned])
                /\ c.previous_year_assigned
                     = SumSeq([i \in DOMAIN enabled |-> d(i).previous_year_assigned])
                /\ c.budget = SumSeq([i \in DOMAIN enabled |-> d(i).budget])
                /\ IsExactCompletion(c.completion_percentage, c.assigned, c.budget)

\* the sum of one quarter column over all rows of the main report
ColumnTotal(report, l) == QuarterSum(report.rows, l)

\* C24 (every row attributed): for every quarter of the current year, the
\* sum over the enabled salespeople of the Assigned and Unassigned values of
\* the Budget report equals the total of that column of the main report,
\* also when a name of the data differs from the configured name by letter
\* case or surrounding blanks.
C24_EveryRowAttributed ==
    BudgetReportMade =>
        \A l \in CurrentQuarterLabels :
            SumSeq([i \in DOMAIN EnabledAEs(config) |->
                      BudgetReportValue(EnabledAEs(config)[i].name, AssignedText, l)
                        + BudgetReportValue(EnabledAEs(config)[i].name, UNASSIGNED, l)])
              = ColumnTotal(main_report, l)

\* C30 (override with the direct calculation): after process_data has stored
\* the direct Q1 calculation, override_with_direct_calculation gives the
\* company Q1 the directly calculated year-over-year change and leaves every
\* other quarter and field as it was.
C30_OverrideReplacesQ1 ==
    (ManagementMade /\ management_success = TRUE) =>
        LET o == override_with_direct_calculation(management_stats, config, now)
        IN  /\ o.company_quarters[1].year_over_year_change
                 = direct_q1_calculation.yoy_change
            /\ \A q \in 2..4 : o.company_quarters[q] = management_stats.company_quarters[q]
            /\ [o.company_quarters[1] EXCEPT !.year_over_year_change = 0]
                 = [management_stats.company_quarters[1]
                      EXCEPT !.year_over_year_change = 0]
            /\ [o EXCEPT !.company_quarters = <<>>]
                 = [management_stats EXCEPT !.company_quarters = <<>>]

\* the keys of the first n entries of reports_created
KeysUpTo(n) == {reports_created[i].key : i \in 1..n}

\* C28 (failure isolation in the send phase): in production mode, whatever
\* the outcome of each attempt, process_ae_report has been called for exactly
\* the entries of reports_created before the position of the loop, for all
\* of them once the loop is over, and the management report is attempted
\* only after them and its outcome is never produced a second time.
C28_FailureIsolation ==
    /\ [](~config.test_mode =>
            /\ pc = "sending" => attempted = KeysUpTo(next_report - 1)
            /\ pc \in {"management", "summary", "done"} =>
                  attempted = KeysUpTo(Len(reports_created))
            /\ pc \in {"start", "read", "direct", "cleaned", "melted", "filtered",
                       "main", "budget", "returned", "sending", "management"} =>
                  management_success = None)
    /\ [][(pc \in {"summary", "done"}) =>
             (UNCHANGED <<management_stats, management_success, attempted>>)]_vars

\* a production run with two reports whose attempts both failed and whose
\* management report was sent
C28_Witness ==
    /\ pc = "done"
    /\ ~config.test_mode
    /\ Len(reports_created) = 2
    /\ success_count = 0
    /\ management_success = TRUE

\* the quarter labels the analytics build from the clock they read when they
\* are called: the current year's, and those of both years
AnalyticsCurrentQuarters(year) ==
    [q \in 1..4 |-> QuarterLabel(CurrentYearText(year), q)]
AnalyticsWindow(year) ==
    {QuarterLabel(y, q) :
        y \in {CurrentYearText(year), PreviousYearText(CurrentYearText(year))},
        q \in 1..4}

\* C25 (one reporting window per run): when the statistics are about to be
\* computed, the quarter names the analytics build are the quarter_columns
\* the DataProcessor fixed at construction, and the two years of the
\* analytics are the required quarters of the main report, also when the
\* year ends between two steps of the run.
C25_OneReportingWindow ==
    pc \in {"sending", "management"} =>
        /\ AnalyticsCurrentQuarters(now) = quarter_columns
        /\ AnalyticsWindow(now) = Range(main_report.quarters)

\* C26 (label agreement in every calendar year): the previous-year quarter
\* labels built from the two-digit current year are the Year_Quarter labels
\* of the monthly columns of the previous year, and every record of the
\* previous year that belongs to an authorized salesperson has its label
\* among the columns of the main report.
C26_LabelAgreement ==
    MainReportMade =>
        /\ \A q \in 1..4 :
              QuarterLabel(PreviousYearText(CurrentYearText(now)), q)
                = YearQuarter(Month(3 * q, now - 1))
        /\ \A i \in DOMAIN timeframe :
              (timeframe[i].Year = now - 1 /\ Authorized(timeframe[i].AE1)) =>
                  timeframe[i].Year_Quarter \in Range(main_report.quarters)

\* reports_created has been built
ReportsMapped == pc \in {"sending", "management", "summary", "done"}

\* C27 (run outcome): a run that reaches its summary is successful exactly
\* when as many report emails were sent as report files were created and the
\* management report was sent; its status is SUCCESS then, PARTIAL SUCCESS
\* when it is not successful and some email was sent, FAILURE otherwise; an
\* aborted run is not successful.
C27_RunOutcome ==
    /\ pc = "done" =>
          /\ success = (success_count = Len(created_files) /\ management_success)
          /\ (status = "SUCCESS") = success
          /\ (status = "PARTIAL SUCCESS")
               = (~success /\ (success_count > 0 \/ management_success))
          /\ (status = "FAILURE")
               = (~success /\ success_count = 0 /\ ~management_success)
    /\ pc = "aborted" => success = FALSE

\* C29 (file-to-salesperson mapping): the key of every report file is the
\* name of the salesperson of that file, no two files share a key, and
\* calculate_sales_stats accepts the key as an enabled salesperson.
C29_FileKeys ==
    ReportsMapped =>
        /\ Len(reports_created) = Len(created_files)
        /\ \A i \in DOMAIN created_files :
              LET key == SplitFirst(Basename(created_files[i]), "-")
              IN  /\ key = SalesPeople(main_report)[i]
                  /\ ~calculate_sales_stats(main_report, key, config, now).raised

\* C22 (load_from_json): on a configuration file with an account_executives
\* section load_from_json returns a Config whose active_aes are the enabled
\* account executives of the file and whose account_executives hold their
\* four budgets.
C22_LoadFromJson ==
    (pc # "config" /\ "account_executives" \in DOMAIN config_data) =>
        /\ exception.type \notin {"KeyError", "TypeError"}
        /\ pc = "loaded" =>
              /\ HasAttr(config, "account_executives")
              /\ active_aes(config)
                   = [i \in DOMAIN EnabledAEs(config_data) |-> EnabledAEs(config_data)[i].name]
              /\ \A i \in DOMAIN config_data.account_executives :
                    GetAE(config, config_data.account_executives[i].name)
                      = <<config_data.account_executives[i]>>

\* the file configures no account executive
NoAccountExecutives ==
    \/ "account_executives" \in DOMAIN config_data /\ config_data.account_executives = <<>>
    \/ "ae_budgets" \in DOMAIN config_data /\ config_data.ae_budgets = <<>>

\* C23 (validate): validate returns True only when every check passes, and
\* load_from_json(...).validate() otherwise ends in a ValueError that names
\* the first failed check: "No Account Executives configured", "Root path
\* does not exist", "Invalid sender email".
C23_ValidateOutcome ==
    /\ pc \in {"validated", "start"} =>
          /\ ~NoAccountExecutives
          /\ {RootPath, VbaPath} \subseteq paths
          /\ HasAt(config.sender_email)
    /\ (pc \in {"failed", "aborted"} /\ ~args.test) =>
          /\ NoAccountExecutives /\ RootPath \in paths =>
                exception = [type |-> "ValueError",
                             message |-> "No Account Executives configured"]
          /\ exception.type = "ValueError" /\ RootPath \notin paths =>
                exception.message = "Root path does not exist"
          /\ ( /\ exception.type = "ValueError"
               /\ {RootPath, VbaPath} \subseteq paths
               /\ SENDGRID_API_KEY \in DOMAIN environ
               /\ ~HasAt(Getenv(environ, SENDER_EMAIL, DefaultSender)) ) =>
                exception.message = "Invalid sender email"

\* load_config has returned a validated config
ConfigValid == pc \notin {"loaded", "overridden"} /\ exception = NoException

====
